---- MODULE Spec2Model ----
(***************************************************************************)
(* AXONIX: the streaming tag parser (axonix/core/stream_parser.py), the    *)
(* per-task step loop (axonix/core/agent.py, Agent.run) and the goal loop  *)
(* (axonix/core/loop.py, LoopEngine.run_goal).                             *)
(*                                                                         *)
(* Text is a sequence of one-character strings.  A JSON value is a tagged  *)
(* record [t, v]; a Python dict is the sequence of its <<key, value>>      *)
(* pairs in insertion order.                                               *)
(***************************************************************************)
EXTENDS Integers, Sequences, FiniteSets, TLC

VARIABLES
    input,      \* parser harness: the whole text of the stream
    pos,        \* parser harness: number of characters already fed
    parser,     \* the StreamParser object under test
    flushed,    \* parser harness: flush() has been called
    split,      \* parser harness: some feed() call ended inside the stream
    agent,      \* Agent.run: locals and fields of one invocation
    llm,        \* Agent.run: the repertoire of the model behind stream_text
    loop,       \* LoopEngine: fields and locals of one run_goal invocation
    web,        \* web front end: the shared Agent's callbacks, requests, connections
    dl          \* ModelDownloader: the downloads entry, calls and worker threads

vars == <<input, pos, parser, flushed, split, agent, llm, loop, web, dl>>

----------------------------------------------------------------------------
(* Text helpers *)

\* F(e) with e evaluated once: the local variable of the code that e is
With(e, F(_)) == CHOOSE r \in {F(v) : v \in {e}} : TRUE

RECURSIVE Concat(_)
Concat(ss) == IF ss = <<>> THEN <<>> ELSE Head(ss) \o Concat(Tail(ss))

Take(s, n) == SubSeq(s, 1, IF n < Len(s) THEN n ELSE Len(s))
Drop(s, n) == SubSeq(s, n + 1, Len(s))

EndsWith(s, suf) ==
    /\ Len(suf) <= Len(s)
    /\ SubSeq(s, Len(s) - Len(suf) + 1, Len(s)) = suf

StartsWithAt(s, i, pre) ==
    /\ i + Len(pre) - 1 <= Len(s)
    /\ SubSeq(s, i, i + Len(pre) - 1) = pre

\* s[:-n] for n >= 1
DropLast(s, n) == SubSeq(s, 1, Len(s) - n)

\* str.startswith
StartsWith(s, pre) == StartsWithAt(s, 1, pre)

\* the character U+0060, which a string literal here cannot hold
Backtick == "BACKTICK"
\* the character U+0027
Quote == "QUOTE"

WS == {" ", "\n"}
Digits == <<"0", "1", "2", "3", "4", "5", "6", "7", "8", "9">>
IsDigit(c) == \E d \in 1..10 : Digits[d] = c
DigitVal(c) == (CHOOSE d \in 1..10 : Digits[d] = c) - 1
WordChars ==
    {"a", "b", "c", "d", "e", "f", "g", "h", "i", "j", "k", "l", "m", "n",
     "o", "p", "q", "r", "s", "t", "u", "v", "w", "x", "y", "z",
     "A", "D", "E", "F", "N", "O", "P", "T", "U", "X", "Y", "_"}
     \cup {Digits[d] : d \in 1..10}

RECURSIVE LStrip(_)
LStrip(s) == IF s # <<>> /\ Head(s) \in WS THEN LStrip(Tail(s)) ELSE s
RECURSIVE RStrip(_)
RStrip(s) ==
    IF s # <<>> /\ s[Len(s)] \in WS THEN RStrip(DropLast(s, 1)) ELSE s
\* str.strip()
Strip(s) == RStrip(LStrip(s))

\* index of the first position >= i of s holding a character outside cs
RECURSIVE SkipSet(_, _, _)
SkipSet(s, i, cs) ==
    IF i <= Len(s) /\ s[i] \in cs THEN SkipSet(s, i + 1, cs) ELSE i

\* code-point order of the characters that occur in dict keys
Ascii ==
    <<"\n", " ", "\"", ",", "0", "1", "2", "3", "4", "5", "6", "7", "8", "9",
      ":", "<", ">", "A", "D", "E", "F", "N", "O", "P", "T", "U", "X", "Y",
      "[", "]", "_", Backtick,
      "a", "b", "c", "d", "e", "f", "g", "h", "i", "j", "k", "l", "m", "n",
      "o", "p", "q", "r", "s", "t", "u", "v", "w", "x", "y", "z", "{", "}">>
Ord(c) == CHOOSE k \in 1..Len(Ascii) : Ascii[k] = c

\* a < b for Python str
RECURSIVE StrLess(_, _)
StrLess(a, b) ==
    IF b = <<>> THEN FALSE
    ELSE IF a = <<>> THEN TRUE
    ELSE IF Head(a) = Head(b) THEN StrLess(Tail(a), Tail(b))
    ELSE Ord(Head(a)) < Ord(Head(b))

----------------------------------------------------------------------------
(* JSON values and json.loads *)

JStr(cs) == [t |-> "str", v |-> cs]
JNum(n) == [t |-> "num", v |-> n]
JBool(b) == [t |-> "bool", v |-> b]
JNull == [t |-> "null", v |-> 0]
JArr(xs) == [t |-> "arr", v |-> xs]
JObj(ps) == [t |-> "obj", v |-> ps]
EmptyDict == JObj(<<>>)

\* dict item assignment d[k] = x: a present key keeps its place
RECURSIVE DictSet(_, _, _)
DictSet(ps, k, x) ==
    IF ps = <<>> THEN << <<k, x>> >>
    ELSE IF Head(ps)[1] = k THEN << <<k, x>> >> \o Tail(ps)
    ELSE <<Head(ps)>> \o DictSet(Tail(ps), k, x)

HasKey(o, k) == \E i \in 1..Len(o.v) : o.v[i][1] = k
\* dict.get(k), None when absent
Get(o, k) ==
    IF HasKey(o, k)
    THEN o.v[CHOOSE i \in 1..Len(o.v) : o.v[i][1] = k][2]
    ELSE JNull

\* Python truthiness of a decoded JSON value
Truthy(x) ==
    CASE x.t = "null" -> FALSE
      [] x.t = "bool" -> x.v
      [] x.t = "num"  -> x.v # 0
      [] OTHER        -> x.v # <<>>

\* a or b
Or(a, b) == IF Truthy(a) THEN a ELSE b

PFail == [ok |-> FALSE, val |-> JNull, pos |-> 0]
POk(x, i) == [ok |-> TRUE, val |-> x, pos |-> i]

SkipWS(s, i) == SkipSet(s, i, WS)

\* index of the closing quote of a string opened before i; 0 when the
\* string is unterminated or holds a control character (strict mode)
RECURSIVE StringEnd(_, _)
StringEnd(s, i) ==
    IF i > Len(s) THEN 0
    ELSE IF s[i] = "\"" THEN i
    ELSE IF s[i] = "\n" THEN 0
    ELSE StringEnd(s, i + 1)

RECURSIVE NumVal(_)
NumVal(ds) ==
    IF ds = <<>> THEN 0 ELSE NumVal(DropLast(ds, 1)) * 10 + DigitVal(ds[Len(ds)])

ParseString(s, i) ==
    With(StringEnd(s, i + 1), LAMBDA e :
        IF e = 0 THEN PFail ELSE POk(JStr(SubSeq(s, i + 1, e - 1)), e + 1))

\* a leading 0 is a number of its own, otherwise a maximal run of digits
ParseNumber(s, i) ==
    With(IF s[i] = "0" THEN i + 1 ELSE SkipSet(s, i, {Digits[d] : d \in 1..10}),
         LAMBDA e : POk(JNum(NumVal(SubSeq(s, i, e - 1))), e))

RECURSIVE ParseValue(_, _)
RECURSIVE ParseMembers(_, _, _)
RECURSIVE ParseElements(_, _, _)

\* after a member's value x: "}" ends the object, "," leads to the next key
MembersTail(s, k, x, acc) ==
    With(SkipWS(s, x.pos), LAMBDA n :
        IF n > Len(s) THEN PFail
        ELSE IF s[n] = "}" THEN POk(JObj(DictSet(acc, k.val.v, x.val)), n + 1)
        ELSE IF s[n] = ","
             THEN ParseMembers(s, SkipWS(s, n + 1), DictSet(acc, k.val.v, x.val))
        ELSE PFail)

\* after a member's key k: the colon and the value
MemberValue(s, k, acc) ==
    With(SkipWS(s, k.pos), LAMBDA c :
        IF c > Len(s) \/ s[c] # ":" THEN PFail
        ELSE With(ParseValue(s, SkipWS(s, c + 1)), LAMBDA x :
                 IF ~x.ok THEN PFail ELSE MembersTail(s, k, x, acc)))

\* the members of an object after "{" or after a ",": i is at the key
ParseMembers(s, i, acc) ==
    IF i > Len(s) \/ s[i] # "\"" THEN PFail
    ELSE With(ParseString(s, i), LAMBDA k :
             IF ~k.ok THEN PFail ELSE MemberValue(s, k, acc))

\* after an element x: "]" ends the array, "," leads to the next element
ElementsTail(s, x, acc) ==
    With(SkipWS(s, x.pos), LAMBDA n :
        IF n > Len(s) THEN PFail
        ELSE IF s[n] = "]" THEN POk(JArr(Append(acc, x.val)), n + 1)
        ELSE IF s[n] = ","
             THEN ParseElements(s, SkipWS(s, n + 1), Append(acc, x.val))
        ELSE PFail)

\* the elements of an array after "[" or after a ",": i is at the value
ParseElements(s, i, acc) ==
    With(ParseValue(s, i), LAMBDA x :
        IF ~x.ok THEN PFail ELSE ElementsTail(s, x, acc))

ParseValue(s, i) ==
    IF i > Len(s) THEN PFail
    ELSE IF s[i] = "\"" THEN ParseString(s, i)
    ELSE IF s[i] = "{"
         THEN With(SkipWS(s, i + 1), LAMBDA n :
                  IF n <= Len(s) /\ s[n] = "}" THEN POk(EmptyDict, n + 1)
                  ELSE ParseMembers(s, n, <<>>))
    ELSE IF s[i] = "["
         THEN With(SkipWS(s, i + 1), LAMBDA n :
                  IF n <= Len(s) /\ s[n] = "]" THEN POk(JArr(<<>>), n + 1)
                  ELSE ParseElements(s, n, <<>>))
    ELSE IF StartsWithAt(s, i, <<"t", "r", "u", "e">>) THEN POk(JBool(TRUE), i + 4)
    ELSE IF StartsWithAt(s, i, <<"f", "a", "l", "s", "e">>) THEN POk(JBool(FALSE), i + 5)
    ELSE IF StartsWithAt(s, i, <<"n", "u", "l", "l">>) THEN POk(JNull, i + 4)
    ELSE IF IsDigit(s[i]) THEN ParseNumber(s, i)
    ELSE PFail

\* json.loads(s): [ok, val]; ok = FALSE stands for json.JSONDecodeError.
\* Covers the JSON grammar without escapes, signs, fractions and exponents.
JsonLoads(s) ==
    With(ParseValue(s, SkipWS(s, 1)), LAMBDA x :
        IF x.ok /\ SkipWS(s, x.pos) > Len(s)
        THEN [ok |-> TRUE, val |-> x.val]
        ELSE [ok |-> FALSE, val |-> JNull])

\* sorted(keys) by insertion into an ordered sequence of pairs
RECURSIVE InsertSorted(_, _)
InsertSorted(ps, p) ==
    IF ps = <<>> THEN <<p>>
    ELSE IF StrLess(p[1], Head(ps)[1]) THEN <<p>> \o ps
    ELSE <<Head(ps)>> \o InsertSorted(Tail(ps), p)

\* json.dumps(x, sort_keys=True), up to the one-to-one rendering of the
\* canonical value as text: dicts at every depth have their keys sorted
RECURSIVE DumpsSorted(_)
RECURSIVE SortPairs(_, _)
RECURSIVE DumpsEach(_)
SortPairs(ps, acc) ==
    IF ps = <<>> THEN acc
    ELSE SortPairs(Tail(ps),
                   InsertSorted(acc, <<Head(ps)[1], DumpsSorted(Head(ps)[2])>>))
DumpsEach(xs) ==
    IF xs = <<>> THEN <<>> ELSE <<DumpsSorted(Head(xs))>> \o DumpsEach(Tail(xs))
DumpsSorted(x) ==
    CASE x.t = "obj" -> JObj(SortPairs(x.v, <<>>))
      [] x.t = "arr" -> JArr(DumpsEach(x.v))
      [] OTHER       -> x

----------------------------------------------------------------------------
(* StreamParser *)

STATE_TEXT == "text"
STATE_THOUGHT == "thought"
STATE_ACTION == "action"
STATE_ENDOFOP == "endofop"

OpenThought == <<"<", "t", "h", "o", "u", "g", "h", "t", ">">>
CloseThought == <<"<", "/", "t", "h", "o", "u", "g", "h", "t", ">">>
OpenAction == <<"<", "a", "c", "t", "i", "o", "n", ">">>
CloseAction == <<"<", "/", "a", "c", "t", "i", "o", "n", ">">>
OpenEndOfOp == <<"<", "E", "N", "D", "O", "F", "O", "P", ">">>
CloseEndOfOp == <<"<", "/", "E", "N", "D", "O", "F", "O", "P", ">">>

\* (open_tag, close_tag, state), in the declared order
TAGS ==
    << <<OpenThought, CloseThought, STATE_THOUGHT>>,
       <<OpenAction, CloseAction, STATE_ACTION>>,
       <<OpenEndOfOp, CloseEndOfOp, STATE_ENDOFOP>> >>

Max(a, b) == IF a >= b THEN a ELSE b
\* max(len(t[0]) for t in TAGS)
max_tag_len == Max(Len(TAGS[1][1]), Max(Len(TAGS[2][1]), Len(TAGS[3][1])))
\* the guard added to max_tag_len before the oldest character is released
LookaheadGuard == 2
\* content[:200] in the parse-error message
ErrorTruncate == 200

TextEv(s) == [type |-> "Text", text |-> s, args |-> JNull]
ThoughtEv(s) == [type |-> "Thought", text |-> s, args |-> JNull]
ActionEv(tool, a) == [type |-> "Action", text |-> tool, args |-> a]
EndOfTaskEv(s) == [type |-> "EndOfTask", text |-> s, args |-> JNull]
ParseErrorEv(s) == [type |-> "ParseError", text |-> s, args |-> JNull]

Fence == <<Backtick, Backtick, Backtick>>

\* re.sub(r'^```\w*\n?', '', content)
StripFenceOpen(s) ==
    IF ~StartsWith(s, Fence) THEN s
    ELSE With(SkipSet(s, 4, WordChars), LAMBDA w :
             Drop(s, IF w <= Len(s) /\ s[w] = "\n" THEN w ELSE w - 1))

\* re.sub(r'\n?```$', '', content)
StripFenceClose(s) ==
    IF ~EndsWith(s, Fence) THEN s
    ELSE IF Len(s) > 3 /\ s[Len(s) - 3] = "\n" THEN DropLast(s, 4)
    ELSE DropLast(s, 3)

KeyTool == <<"t", "o", "o", "l">>
KeyName == <<"n", "a", "m", "e">>
KeyFunction == <<"f", "u", "n", "c", "t", "i", "o", "n">>
KeyArgs == <<"a", "r", "g", "s">>
KeyArguments == <<"a", "r", "g", "u", "m", "e", "n", "t", "s">>
KeyParameters == <<"p", "a", "r", "a", "m", "e", "t", "e", "r", "s">>

\* the length of "tool", "name" or "function" (quotes included) at i, or 0
ToolKeyAt(s, i) ==
    IF StartsWithAt(s, i, <<"\"">> \o KeyTool \o <<"\"">>) THEN Len(KeyTool) + 2
    ELSE IF StartsWithAt(s, i, <<"\"">> \o KeyName \o <<"\"">>) THEN Len(KeyName) + 2
    ELSE IF StartsWithAt(s, i, <<"\"">> \o KeyFunction \o <<"\"">>)
         THEN Len(KeyFunction) + 2
    ELSE 0

NoMatch == [ok |-> FALSE, val |-> <<>>]

\* "([^"]+)" with the opening quote at o
ToolRegexValue(s, o) ==
    With(SkipSet(s, o + 1, {Ascii[k] : k \in 1..Len(Ascii)} \ {"\""}), LAMBDA e :
        IF e > o + 1 /\ e <= Len(s)
        THEN [ok |-> TRUE, val |-> SubSeq(s, o + 1, e - 1)]
        ELSE NoMatch)

\* \s*:\s*"([^"]+)" from position j
ToolRegexColon(s, j) ==
    With(SkipWS(s, j), LAMBDA c :
        IF c > Len(s) \/ s[c] # ":" THEN NoMatch
        ELSE With(SkipWS(s, c + 1), LAMBDA o :
                 IF o > Len(s) \/ s[o] # "\"" THEN NoMatch
                 ELSE ToolRegexValue(s, o)))

\* a match of "(?:tool|name|function)"\s*:\s*"([^"]+)" starting at i
ToolRegexAt(s, i) ==
    With(ToolKeyAt(s, i), LAMBDA klen :
        IF klen = 0 THEN NoMatch ELSE ToolRegexColon(s, i + klen))

\* re.search: the leftmost match
RECURSIVE ToolRegexSearch(_, _)
ToolRegexSearch(s, i) ==
    IF i > Len(s) THEN NoMatch
    ELSE With(ToolRegexAt(s, i), LAMBDA m :
             IF m.ok THEN m ELSE ToolRegexSearch(s, i + 1))

RECURSIVE NumStr(_)
NumStr(n) ==
    IF n < 10 THEN <<Digits[n + 1]>> ELSE NumStr(n \div 10) \o <<Digits[(n % 10) + 1]>>

\* repr(x) of a decoded JSON value
RECURSIVE PyRepr(_)
RECURSIVE ReprItems(_)
RECURSIVE ReprPairs(_)
ReprItems(xs) ==
    IF xs = <<>> THEN <<>>
    ELSE PyRepr(Head(xs))
         \o (IF Tail(xs) = <<>> THEN <<>> ELSE <<",", " ">> \o ReprItems(Tail(xs)))
ReprPairs(ps) ==
    IF ps = <<>> THEN <<>>
    ELSE <<Quote>> \o Head(ps)[1] \o <<Quote, ":", " ">> \o PyRepr(Head(ps)[2])
         \o (IF Tail(ps) = <<>> THEN <<>> ELSE <<",", " ">> \o ReprPairs(Tail(ps)))
PyRepr(x) ==
    CASE x.t = "str"  -> <<Quote>> \o x.v \o <<Quote>>
      [] x.t = "num"  -> NumStr(x.v)
      [] x.t = "bool" -> IF x.v THEN <<"T", "r", "u", "e">>
                         ELSE <<"F", "a", "l", "s", "e">>
      [] x.t = "null" -> <<"N", "o", "n", "e">>
      [] x.t = "arr"  -> <<"[">> \o ReprItems(x.v) \o <<"]">>
      [] x.t = "obj"  -> <<"{">> \o ReprPairs(x.v) \o <<"}">>

\* str(x)
PyStr(x) == IF x.t = "str" THEN x.v ELSE PyRepr(x)

\* dict(x): [raised, val].  A dict is copied; a list must hold pairs (lists
\* of two items with a string key, or two-character strings); anything else
\* raises TypeError or ValueError.
RECURSIVE DictFromPairs(_, _)
DictFromPairs(xs, acc) ==
    IF xs = <<>> THEN [raised |-> FALSE, val |-> JObj(acc)]
    ELSE LET e == Head(xs)
         IN  IF e.t = "arr" /\ Len(e.v) = 2 /\ e.v[1].t = "str"
             THEN DictFromPairs(Tail(xs), DictSet(acc, e.v[1].v, e.v[2]))
             ELSE IF e.t = "str" /\ Len(e.v) = 2
             THEN DictFromPairs(Tail(xs), DictSet(acc, <<e.v[1]>>, JStr(<<e.v[2]>>)))
             ELSE [raised |-> TRUE, val |-> EmptyDict]
PyDict(x) ==
    CASE x.t = "obj" -> [raised |-> FALSE, val |-> x]
      [] x.t = "arr" -> DictFromPairs(x.v, <<>>)
      [] x.t = "str" -> IF x.v = <<>> THEN [raised |-> FALSE, val |-> EmptyDict]
                        ELSE [raised |-> TRUE, val |-> EmptyDict]
      [] OTHER       -> [raised |-> TRUE, val |-> EmptyDict]

NoTool == [raised |-> FALSE, tool |-> <<>>, args |-> EmptyDict]

\* a reading of the object that knows the keys tool and args only
ParsedActionPrimaryKeys(obj) ==
    IF obj.t # "obj"
    THEN [raised |-> TRUE, tool |-> <<>>, args |-> EmptyDict]
    ELSE With(Get(obj, KeyTool), LAMBDA tool :
         With(Or(Get(obj, KeyArgs), EmptyDict), LAMBDA args :
             IF Truthy(tool)
             THEN With(PyDict(args), LAMBDA d :
                      [raised |-> d.raised, tool |-> PyStr(tool), args |-> d.val])
             ELSE NoTool))

\* the branch of _parse_action after json.loads returned obj
ParsedAction(obj) ==
    IF obj.t # "obj"
    THEN [raised |-> TRUE, tool |-> <<>>, args |-> EmptyDict]
    ELSE With(Or(Or(Get(obj, KeyTool), Get(obj, KeyName)), Get(obj, KeyFunction)),
         LAMBDA tool :
         With(Or(Or(Or(Get(obj, KeyArgs), Get(obj, KeyArguments)),
                    Get(obj, KeyParameters)), EmptyDict),
         LAMBDA a0 :
         With(IF a0.t = "str"
              THEN With(JsonLoads(a0.v),
                        LAMBDA j : IF j.ok THEN j.val ELSE EmptyDict)
              ELSE a0,
         LAMBDA args :
             IF Truthy(tool)
             THEN With(PyDict(args), LAMBDA d :
                      [raised |-> d.raised, tool |-> PyStr(tool), args |-> d.val])
             ELSE NoTool)))

\* the branch of _parse_action under `except json.JSONDecodeError`
RegexFallback(content) ==
    With(ToolRegexSearch(content, 1), LAMBDA m :
        IF m.ok THEN [raised |-> FALSE, tool |-> m.val, args |-> EmptyDict]
        ELSE NoTool)

\* _parse_action(content): [raised, tool, args]; tool = <<>> stands for None,
\* raised for an exception other than json.JSONDecodeError leaving the method
_parse_action(content0) ==
    With(Strip(StripFenceClose(StripFenceOpen(Strip(content0)))), LAMBDA content :
        With(JsonLoads(content), LAMBDA r :
            IF r.ok THEN ParsedAction(r.val) ELSE RegexFallback(content)))

\* a freshly constructed StreamParser; events is the ordered record of the
\* callbacks it has invoked, raised that an exception left feed()
NewParser ==
    [state   |-> STATE_TEXT,
     buffer  |-> <<>>,
     tag_buf |-> <<>>,
     content |-> <<>>,
     events  |-> <<>>,
     raised  |-> FALSE]

Emit(p, ev) == [p EXCEPT !.events = Append(@, ev)]

\* _dispatch(state, content), the parser being still in `state`
_dispatch(p, state, content) ==
    IF state = STATE_THOUGHT THEN Emit(p, ThoughtEv(content))
    ELSE IF state = STATE_ACTION
    THEN With(_parse_action(content), LAMBDA a :
             IF a.raised THEN [p EXCEPT !.raised = TRUE]
             ELSE IF a.tool # <<>> THEN Emit(p, ActionEv(a.tool, a.args))
             ELSE Emit(p, ParseErrorEv(Take(content, ErrorTruncate))))
    ELSE Emit(p, EndOfTaskEv(content))

\* the first tag of TAGS, in order, whose open tag ends tag_buf; 0 if none
OpenMatch(buf) ==
    IF EndsWith(buf, TAGS[1][1]) THEN 1
    ELSE IF EndsWith(buf, TAGS[2][1]) THEN 2
    ELSE IF EndsWith(buf, TAGS[3][1]) THEN 3
    ELSE 0

\* the tag of TAGS for a content state
TagOf(state) == CHOOSE k \in 1..3 : TAGS[k][3] = state

\* a pre_text callback that also fires for an empty pre_text
EmitPreTextAlways(p, pre_text) == Emit(p, TextEv(pre_text))

\* if pre_text: self.on_text(pre_text)
EmitPreText(p, pre_text) == IF pre_text # <<>> THEN Emit(p, TextEv(pre_text)) ELSE p

\* a TEXT state that never releases the oldest character of tag_buf
ProcessTextHolding(p, buf) ==
    With(OpenMatch(buf), LAMBDA k :
        IF k # 0
        THEN [EmitPreText(p, DropLast(buf, Len(TAGS[k][1])))
                 EXCEPT !.tag_buf = <<>>, !.content = <<>>, !.state = TAGS[k][3]]
        ELSE [p EXCEPT !.tag_buf = buf])

\* _process_char in STATE_TEXT, buf being tag_buf with ch appended
ProcessText(p, buf) ==
    With(OpenMatch(buf), LAMBDA k :
        IF k # 0
        THEN [EmitPreText(p, DropLast(buf, Len(TAGS[k][1])))
                 EXCEPT !.tag_buf = <<>>, !.content = <<>>, !.state = TAGS[k][3]]
        ELSE IF Len(buf) > max_tag_len + LookaheadGuard
        THEN [Emit(p, TextEv(<<Head(buf)>>)) EXCEPT !.tag_buf = Tail(buf)]
        ELSE [p EXCEPT !.tag_buf = buf])

\* the close tag of TAGS, in order, that ends content; 0 if none
CloseMatch(content) ==
    IF EndsWith(content, TAGS[1][2]) THEN 1
    ELSE IF EndsWith(content, TAGS[2][2]) THEN 2
    ELSE IF EndsWith(content, TAGS[3][2]) THEN 3
    ELSE 0

\* a content state that is left on the close tag of any kind
ProcessContentAnyClose(p, close) ==
    With(CloseMatch(p.content), LAMBDA k :
        IF k # 0
        THEN With(_dispatch(p, p.state, Strip(DropLast(p.content, Len(TAGS[k][2])))),
                  LAMBDA d :
                      IF d.raised THEN d
                      ELSE [d EXCEPT !.state = STATE_TEXT, !.content = <<>>,
                                     !.tag_buf = <<>>])
        ELSE p)

\* _process_char inside a block, p.content already holding ch
ProcessContent(p, close) ==
    IF EndsWith(p.content, close)
    THEN With(_dispatch(p, p.state, Strip(DropLast(p.content, Len(close)))),
              LAMBDA d :
                  IF d.raised THEN d
                  ELSE [d EXCEPT !.state = STATE_TEXT, !.content = <<>>,
                                 !.tag_buf = <<>>])
    ELSE p

_process_char(p0, ch) ==
    IF p0.state = STATE_TEXT
    THEN ProcessText([p0 EXCEPT !.buffer = Append(@, ch)], Append(p0.tag_buf, ch))
    ELSE ProcessContent([p0 EXCEPT !.buffer = Append(@, ch),
                                   !.content = Append(@, ch)],
                        TAGS[TagOf(p0.state)][2])

\* for ch in token: self._process_char(ch); an exception ends the loop.
\* The characters are taken in order, the first half of the token before
\* the second.
RECURSIVE FeedChars(_, _)
FeedChars(p, token) ==
    IF token = <<>> \/ p.raised THEN p
    ELSE IF Len(token) = 1 THEN _process_char(p, token[1])
    ELSE FeedChars(FeedChars(p, Take(token, Len(token) \div 2)),
                   Drop(token, Len(token) \div 2))

\* a flush that dispatches the partial content of an unclosed block
flush_dispatching(p) ==
    IF p.tag_buf # <<>> /\ p.state = STATE_TEXT
    THEN [Emit(p, TextEv(p.tag_buf)) EXCEPT !.tag_buf = <<>>]
    ELSE IF p.content # <<>> /\ p.state # STATE_TEXT
    THEN _dispatch(p, p.state, Strip(p.content))
    ELSE p

\* flush(): the held text is emitted; partial content of an unclosed block is
\* only logged
flush(p) ==
    IF p.tag_buf # <<>> /\ p.state = STATE_TEXT
    THEN [Emit(p, TextEv(p.tag_buf)) EXCEPT !.tag_buf = <<>>]
    ELSE p

\* a feed that hands the held-back text over at the end of every fragment
feed_releasing(p, token) ==
    With(FeedChars(p, token), LAMBDA q : IF q.raised THEN q ELSE flush(q))

feed(p, token) == FeedChars(p, token)

\* the callbacks of the given kinds among evs, in order
RECURSIVE EventsOf(_, _)
EventsOf(evs, types) ==
    IF evs = <<>> THEN <<>>
    ELSE (IF Head(evs).type \in types THEN <<Head(evs)>> ELSE <<>>)
         \o EventsOf(Tail(evs), types)

\* "".join of the on_text callbacks among evs
RECURSIVE TextOf(_)
TextOf(evs) ==
    IF evs = <<>> THEN <<>>
    ELSE (IF Head(evs).type = "Text" THEN Head(evs).text ELSE <<>>)
         \o TextOf(Tail(evs))

IsPrefix(a, b) == Len(a) <= Len(b) /\ SubSeq(b, 1, Len(a)) = a

----------------------------------------------------------------------------
(* Bounded inputs of the parser harness *)

MaxSegs == 3
MaxFrag == 3

Q(s) == <<"\"">> \o s \o <<"\"">>
ToolT == <<"T">>
ToolU == <<"U">>
\* {"a":1}
ArgsA1 == <<"{">> \o Q(<<"a">>) \o <<":", "1", "}">>
\* {"a":1,"b":2} and {"b":2,"a":1}
ArgsAB == <<"{">> \o Q(<<"a">>) \o <<":", "1", ",">> \o Q(<<"b">>) \o <<":", "2", "}">>
ArgsBA == <<"{">> \o Q(<<"b">>) \o <<":", "2", ",">> \o Q(<<"a">>) \o <<":", "1", "}">>

\* {"<toolkey>":<tool>,"<argskey>":<args>}<tail>
CallText(toolkey, tool, argskey, args, tail) ==
    <<"{">> \o Q(toolkey) \o <<":">> \o tool \o <<",">> \o Q(argskey) \o <<":">>
    \o args \o tail

ContentValid == CallText(KeyTool, Q(ToolT), KeyArgs, ArgsA1, <<"}">>)
ContentTrailingComma == CallText(KeyTool, Q(ToolT), KeyArgs, ArgsA1, <<",", "}">>)
ContentFenced ==
    Fence \o <<"j", "s", "o", "n", "\n">> \o ContentValid \o <<"\n">> \o Fence
ContentNameKey == CallText(KeyName, Q(ToolT), KeyArguments, ArgsA1, <<"}">>)
ContentNoArgs == <<"{">> \o Q(KeyFunction) \o <<":">> \o Q(ToolU) \o <<"}">>
ContentArgsString ==
    CallText(KeyTool, Q(ToolT), KeyParameters, Q(<<"{", "}">>), <<"}">>)
ContentGarbage == <<"z", "z">>
ContentNoTool == <<"{">> \o Q(KeyArgs) \o <<":">> \o ArgsA1 \o <<"}">>
ContentJsonList == <<"[", "1", "]">>
ContentJsonNumber == <<"5">>
ContentToolNumber == <<"{">> \o Q(KeyTool) \o <<":", "5", "}">>
ContentArgsList == CallText(KeyTool, Q(ToolT), KeyArgs, <<"[", "1", "]">>, <<"}">>)
ContentArgsNumber == CallText(KeyTool, Q(ToolT), KeyArgs, <<"5">>, <<"}">>)

ActionContents ==
    {ContentValid, ContentTrailingComma, ContentFenced, ContentNameKey,
     ContentNoArgs, ContentArgsString, ContentGarbage, ContentNoTool,
     ContentJsonList, ContentJsonNumber, ContentToolNumber, ContentArgsList,
     ContentArgsNumber}

ThoughtBlock(x) == OpenThought \o x \o CloseThought
ActionBlock(x) == OpenAction \o <<"\n">> \o x \o <<"\n">> \o CloseAction
EndOfOpBlock(x) == OpenEndOfOp \o x \o CloseEndOfOp

LongText == <<"S", "o", "m", "e", " ", "t", "e", "x", "t", " ", "a", "f">>

Segments ==
    {<<"<">>, LongText,
     ThoughtBlock(<<"X">>), EndOfOpBlock(<<"Y">>), ActionBlock(ContentValid),
     OpenThought, CloseThought}

Surround == {<<>>, <<"a", " ">>, <<"<", "a">>}

RECURSIVE SegStreams(_)
SegStreams(n) ==
    IF n = 0 THEN {<<>>}
    ELSE SegStreams(n - 1)
         \cup {s \o g : s \in SegStreams(n - 1), g \in Segments}

\* one block of kind k (an index of TAGS) holding x
BlockOf(k, x) == TAGS[k][1] \o x \o TAGS[k][2]

\* the tags that may stand inside a block of kind k without closing it
InnerTags(k) ==
    {TAGS[j][1] : j \in 1..3} \cup {TAGS[j][2] : j \in (1..3) \ {k}}

NestedContent(inner) == <<"a">> \o inner \o <<"b">>

NestedInputs ==
    UNION {{BlockOf(k, NestedContent(inner)) : inner \in InnerTags(k)} : k \in 1..3}

ToolKeys == {KeyTool, KeyName, KeyFunction}
ArgsKeys == {KeyArgs, KeyArguments, KeyParameters}

\* {"<toolkey>":"T"}
CallNoArgs(toolkey) == <<"{">> \o Q(toolkey) \o <<":">> \o Q(ToolT) \o <<"}">>

AliasContents ==
    {CallText(tk, Q(ToolT), ak, ArgsA1, <<"}">>) : tk \in ToolKeys, ak \in ArgsKeys}
    \cup {CallNoArgs(tk) : tk \in ToolKeys}

ParserInputs ==
    SegStreams(MaxSegs)
    \cup {pre \o ActionBlock(c) \o post :
             pre \in Surround, c \in ActionContents, post \in Surround}
    \cup NestedInputs
    \cup {ActionBlock(c) : c \in AliasContents}

----------------------------------------------------------------------------
(* The parser harness: a caller that feeds one stream to one fresh          *)
(* StreamParser in fragments and calls flush() at the end, as               *)
(* src/test_parser.py does.                                                 *)

\* the Agent and the LoopEngine while only the parser is exercised
AgentIdle == [pc |-> "idle"]
LoopIdle == [pc |-> "unused"]
WebIdle == [pc |-> "unused"]
DownloaderIdle == [pc |-> "unused"]

ParserInit ==
    /\ input \in ParserInputs
    /\ pos = 0
    /\ parser = NewParser
    /\ flushed = FALSE
    /\ split = FALSE
    /\ agent = AgentIdle
    /\ llm = {}
    /\ loop = LoopIdle
    /\ web = WebIdle
    /\ dl = DownloaderIdle

\* p.feed(test[i:i+chunk])
Feed(k) ==
    /\ ~flushed /\ ~parser.raised
    /\ pos + k <= Len(input)
    /\ parser' = feed(parser, SubSeq(input, pos + 1, pos + k))
    /\ pos' = pos + k
    /\ split' = (split \/ pos + k < Len(input))
    /\ UNCHANGED <<input, flushed, agent, llm, loop, web, dl>>

\* p.feed of everything not yet fed, as one fragment
FeedRest ==
    /\ ~flushed /\ ~parser.raised
    /\ pos < Len(input)
    /\ parser' = feed(parser, SubSeq(input, pos + 1, Len(input)))
    /\ pos' = Len(input)
    /\ UNCHANGED <<input, flushed, split, agent, llm, loop, web, dl>>

\* p.flush() at the end of the stream
Flush ==
    /\ ~flushed /\ ~parser.raised
    /\ pos = Len(input)
    /\ parser' = flush(parser)
    /\ flushed' = TRUE
    /\ UNCHANGED <<input, pos, split, agent, llm, loop, web, dl>>

ParserNext ==
    \/ \E k \in 1..MaxFrag : Feed(k)
    \/ FeedRest
    \/ Flush

SpecParser == ParserInit /\ [][ParserNext]_vars

\* the same stream fed to a fresh parser as one fragment, then flushed
WholeFeed(text) ==
    With(feed(NewParser, text), LAMBDA p : IF p.raised THEN p ELSE flush(p))

----------------------------------------------------------------------------
(* Agent.run: the per-task step loop *)

\* config["max_steps"]
MaxSteps == 6
\* how many times run() is invoked on the same Agent
MaxRuns == 2

\* if repeat_count >= 3
NudgeAt == 3
\* if repeat_count >= 5
AbortAt == 5
\* the fragment size of the streams, as in src/test_parser.py
ChunkSize == 5

ToolR == <<"R">>
ToolB == <<"B">>
ToolDone == <<"d", "o", "n", "e">>
\* the keys of self._tool_map, by what the callable does when called: T
\* returns, R raises, B rejects its arguments (TypeError), done is _done
ToolMap == {ToolT, ToolR, ToolB, ToolDone}

RECURSIVE Chunk(_, _)
Chunk(text, n) ==
    IF text = <<>> THEN <<>>
    ELSE <<Take(text, n)>> \o Chunk(Drop(text, n), n)

CallOf(tool, args) == CallText(KeyTool, Q(tool), KeyArgs, args, <<"}">>)

\* "[MAX STEPS] Agent stopped without completing the task.", by its tag
MaxStepsText == <<"[", "M", "A", "X", " ", "S", "T", "E", "P", "S", "]">>

KeyResult == <<"r", "e", "s", "u", "l", "t">>

\* what self.llm.stream_text(messages) may yield: the fragments, and whether
\* the generator raises once they are exhausted instead of ending
StreamIds ==
    {"A", "A2", "U", "R", "B", "Text", "End", "List", "Garbage", "Fault", "D", "EndMax",
     "AA", "ATail", "AE"}
Streams ==
    [id \in StreamIds |->
        CASE id = "A" ->
               [tokens |-> Chunk(ThoughtBlock(<<"t">>) \o <<"\n">>
                                 \o ActionBlock(CallOf(ToolT, ArgsAB)), ChunkSize),
                fault |-> FALSE]
          [] id = "A2" ->
               [tokens |-> Chunk(ActionBlock(CallOf(ToolT, ArgsBA)), ChunkSize),
                fault |-> FALSE]
          [] id = "U" ->
               [tokens |-> Chunk(<<"o", "k", " ">> \o ActionBlock(ContentNoArgs), ChunkSize),
                fault |-> FALSE]
          [] id = "R" ->
               [tokens |-> Chunk(ActionBlock(CallOf(ToolR, ArgsA1)), ChunkSize),
                fault |-> FALSE]
          [] id = "B" ->
               [tokens |-> Chunk(ActionBlock(CallOf(ToolB, ArgsA1)), ChunkSize),
                fault |-> FALSE]
          [] id = "Text" ->
               [tokens |-> Chunk(<<"h", "m", "m">>, ChunkSize), fault |-> FALSE]
          [] id = "End" ->
               [tokens |-> Chunk(<<"o", "k", " ">> \o EndOfOpBlock(<<"Y">>), ChunkSize),
                fault |-> FALSE]
          [] id = "List" ->
               [tokens |-> Chunk(ActionBlock(ContentJsonList), ChunkSize),
                fault |-> FALSE]
          [] id = "Garbage" ->
               [tokens |-> Chunk(ActionBlock(ContentGarbage), ChunkSize),
                fault |-> FALSE]
          [] id = "Fault" ->
               [tokens |-> Chunk(<<"h", "m", "m">>, ChunkSize), fault |-> TRUE]
          [] id = "D" ->
               [tokens |-> Chunk(ActionBlock(CallOf(ToolDone,
                                     <<"{">> \o Q(KeyResult) \o <<":">> \o Q(MaxStepsText)
                                     \o <<"}">>)), ChunkSize),
                fault |-> FALSE]
          [] id = "EndMax" ->
               [tokens |-> Chunk(<<"h", "m", "m">> \o EndOfOpBlock(MaxStepsText), ChunkSize),
                fault |-> FALSE]
          [] id = "AA" ->
               [tokens |-> <<ActionBlock(CallOf(ToolT, ArgsA1))
                             \o ActionBlock(CallOf(ToolR, ArgsA1)) \o <<"o", "k">> >>,
                fault |-> FALSE]
          [] id = "ATail" ->
               [tokens |-> Chunk(<<"o", "k", " ">> \o ActionBlock(CallOf(ToolT, ArgsA1))
                                 \o <<"h", "m", "m", " ">>
                                 \o ActionBlock(CallOf(ToolR, ArgsA1)), ChunkSize),
                fault |-> FALSE]
          [] id = "AE" ->
               [tokens |-> <<ActionBlock(CallOf(ToolT, ArgsA1)) \o EndOfOpBlock(<<"Y">>)>>,
                fault |-> FALSE]]

\* the models the agent is run against, each by the streams it produces
Repertoires ==
    {{"A", "A2", "U", "Text"},
     {"A", "List", "Garbage", "End"},
     {"A", "R", "B", "Fault"},
     {"D", "Text", "EndMax"},
     {"AA", "ATail", "AE", "Garbage"}}

RECURSIVE TextsOf(_)
TextsOf(evs) ==
    IF evs = <<>> THEN <<>> ELSE <<Head(evs).text>> \o TextsOf(Tail(evs))

\* a stream loop without the two break statements
RECURSIVE ConsumeTokensAll(_, _, _)
ConsumeTokensAll(p, tokens, n) ==
    IF tokens = <<>> THEN [p |-> p, n |-> n, broke |-> FALSE]
    ELSE With(feed(p, Head(tokens)), LAMBDA q :
             IF q.raised THEN [p |-> q, n |-> n + 1, broke |-> FALSE]
             ELSE ConsumeTokensAll(q, Tail(tokens), n + 1))

\* for token in stream: parser.feed(token); break on action_pending or
\* endofop_summary.  n counts the fragments taken from the stream.
RECURSIVE ConsumeTokens(_, _, _)
ConsumeTokens(p, tokens, n) ==
    IF tokens = <<>> THEN [p |-> p, n |-> n, broke |-> FALSE]
    ELSE With(feed(p, Head(tokens)), LAMBDA q :
             IF q.raised THEN [p |-> q, n |-> n + 1, broke |-> FALSE]
             ELSE IF EventsOf(q.events, {"Action", "EndOfTask"}) # <<>>
             THEN [p |-> q, n |-> n + 1, broke |-> TRUE]
             ELSE ConsumeTokens(q, Tail(tokens), n + 1))

\* the try block of one step: the stream loop and parser.flush().  error
\* says that an exception reached `except Exception`.
StreamStep(st) ==
    With(ConsumeTokens(NewParser, st.tokens, 0), LAMBDA c :
    With(c.p.raised \/ (~c.broke /\ st.fault), LAMBDA error :
    With(IF error THEN c.p ELSE flush(c.p), LAMBDA p :
        [error           |-> error,
         parser_raised   |-> c.p.raised,
         assembled       |-> TextOf(p.events),
         action_pending  |-> EventsOf(p.events, {"Action"}),
         endofop_summary |-> TextsOf(EventsOf(p.events, {"EndOfTask"})),
         parse_errors    |-> Len(EventsOf(p.events, {"ParseError"})),
         consumed        |-> c.n])))

Outcome == [id \in StreamIds |-> StreamStep(Streams[id])]

Msg(role, kind, tool, text, n) ==
    [role |-> role, kind |-> kind, tool |-> tool, text |-> text, n |-> n]
SystemMsg == Msg("system", "system_prompt", <<>>, <<>>, 0)
TaskMsg == Msg("user", "task", <<>>, <<>>, 0)
AssistantMsg(assembled) == Msg("assistant", "assembled", <<>>, assembled, 0)
RepeatNudge(tool, n) == Msg("user", "repeat_nudge", tool, <<>>, n)
ToolResultMsg(tool, result) == Msg("user", "tool_result", tool, result, 0)
ContinueNudge == Msg("user", "continue_nudge", <<>>, <<>>, 0)

NoResult == [kind |-> "none", text |-> <<>>]

\* the Agent after __init__
AgentNew ==
    [pc             |-> "idle",
     runs           |-> 0,
     step           |-> 0,
     streams        |-> 0,
     messages       |-> <<SystemMsg>>,
     action_history |-> <<>>,
     finished       |-> FALSE,
     final_result   |-> JNull,
     dispatched     |-> <<>>,
     tool_results   |-> <<>>,
     result         |-> NoResult,
     last_stream    |-> "none",
     fragments      |-> 0,
     prior_stuck    |-> FALSE]

\* _done(self, result=""): the call binds when every keyword is "result"
DoneAccepts(args) == \A i \in 1..Len(args.v) : args.v[i][1] = KeyResult

\* the value bound to result: the argument, or the default ""
DoneResult(args) == IF args.v = <<>> THEN JStr(<<>>) ELSE args.v[Len(args.v)][2]

\* the tool call that runs _done's body (sets _finished and _final_result)
DoneCalled(name, args) == name = ToolDone /\ DoneAccepts(args)

\* _done's return value f"[DONE] {result}"
_done(args) == <<"[", "D", "O", "N", "E", "]", " ">> \o PyStr(DoneResult(args))

\* the prefix "[ERROR] " of every diagnostic string
ErrorTag == <<"[", "E", "R", "R", "O", "R", "]", " ">>

\* the tool call raises: TypeError when the arguments do not bind (ToolB, or
\* done with a keyword other than result), another exception inside ToolR
ToolRaises(name, args) ==
    IF name = ToolB \/ (name = ToolDone /\ ~DoneAccepts(args)) THEN <<"B">>
    ELSE IF name = ToolR THEN <<"R">>
    ELSE <<>>

\* what the call returns when nothing raises
ToolReturns(name, args) == IF name = ToolDone THEN _done(args) ELSE <<"O", "K">>

_exec_tool_propagating(name, args) ==
    IF name \notin ToolMap THEN ErrorTag \o <<"U">>
    ELSE IF ToolRaises(name, args) = <<"B">> THEN ErrorTag \o <<"B">>
    ELSE IF ToolRaises(name, args) = <<"R">> THEN <<"R">>
    ELSE ToolReturns(name, args)

\* _exec_tool(name, args): the result string, by its kind: "[ERROR] Unknown
\* tool", "[ERROR] Bad args", "[ERROR] Tool ... raised", or str(r)
_exec_tool(name, args) ==
    IF name \notin ToolMap THEN ErrorTag \o <<"U">>
    ELSE IF ToolRaises(name, args) # <<>> THEN ErrorTag \o ToolRaises(name, args)
    ELSE ToolReturns(name, args)

\* action_sig = (tool_name, json.dumps(tool_args, sort_keys=True))
ActionSig(tool, args) == <<tool, DumpsSorted(args)>>

\* a count of the trailing run of sig only
RepeatCountConsecutive(h, sig) ==
    LET run == {k \in 1..Len(h) : \A i \in (Len(h) - k + 1)..Len(h) : h[i] = sig}
    IN  Cardinality(run)

\* action_history.count(action_sig)
RepeatCount(h, sig) == Cardinality({i \in 1..Len(h) : h[i] = sig})

\* the preamble of run(): fields reset, messages and action_history built
\* a run that goes on with the action history of the run before
RunBeginKeepingHistory ==
    /\ agent.pc \in {"idle", "returned"}
    /\ agent.runs < MaxRuns
    /\ agent' = [agent EXCEPT
                    !.pc = "loop", !.runs = @ + 1, !.step = 0, !.streams = 0,
                    !.messages = <<SystemMsg, TaskMsg>>,
                    !.finished = FALSE, !.final_result = JNull,
                    !.dispatched = <<>>, !.tool_results = <<>>,
                    !.result = NoResult,
                    !.last_stream = "none", !.fragments = 0,
                    !.prior_stuck = (@ \/ agent.result.kind = "stuck")]
    /\ UNCHANGED <<input, pos, parser, flushed, split, llm, loop, web, dl>>

\* run(): the fields and locals are set up and the step loop is entered
RunBegin ==
    /\ agent.pc \in {"idle", "returned"}
    /\ agent.runs < MaxRuns
    /\ agent' = [agent EXCEPT
                    !.pc = "loop", !.runs = @ + 1, !.step = 0, !.streams = 0,
                    !.messages = <<SystemMsg, TaskMsg>>,
                    !.action_history = <<>>,
                    !.finished = FALSE, !.final_result = JNull,
                    !.dispatched = <<>>, !.tool_results = <<>>,
                    !.result = NoResult,
                    !.last_stream = "none", !.fragments = 0,
                    !.prior_stuck = (@ \/ agent.result.kind = "stuck")]
    /\ UNCHANGED <<input, pos, parser, flushed, split, llm, loop, web, dl>>

\* the loop is entered for another step, and the model answers with stream s
StepWith(s) ==
    /\ agent.pc = "loop"
    /\ agent.step < MaxSteps
    /\ s \in llm

Stepped(a) == [a EXCEPT !.step = @ + 1, !.streams = @ + 1]

\* the step that consumed stream s: which stream it was and how many of its
\* fragments were requested
SteppedOn(a, s) ==
    [Stepped(a) EXCEPT !.last_stream = s, !.fragments = Outcome[s].consumed]
Return(a, kind, text) ==
    [a EXCEPT !.pc = "returned", !.result = [kind |-> kind, text |-> text]]

\* str(e) of the exception that reaches `except Exception`: raised inside
\* parser.feed(), or by the stream itself
RaisedByParser == <<"p", "a", "r", "s", "e", "r">>
RaisedByStream == <<"s", "t", "r", "e", "a", "m">>

\* the string run() returns, by outcome: the summary, "[MAX STEPS] ...",
\* "[ERROR] Agent got stuck in a loop calling {tool_name}.", or
\* "[ERROR] Stream failed: {e}"
ReturnString(result) ==
    CASE result.kind = "summary" -> result.text
      [] result.kind = "max_steps" -> MaxStepsText
      [] result.kind = "stuck" -> ErrorTag \o <<"l", "o", "o", "p", " ">> \o result.text
      [] result.kind = "stream_error" ->
             ErrorTag \o <<"S", "t", "r", "e", "a", "m", " ">> \o result.text
      [] OTHER -> <<>>

StepStreamErrorContinues(s) ==
    /\ StepWith(s)
    /\ \E o \in {Outcome[s]} :
          /\ o.error
          /\ agent' = [SteppedOn(agent, s) EXCEPT
                          !.messages = @ \o <<AssistantMsg(o.assembled), ContinueNudge>>]
    /\ UNCHANGED <<input, pos, parser, flushed, split, llm, loop, web, dl>>

\* except Exception as e: return f"[ERROR] Stream failed: {e}"
StepStreamError(s) ==
    /\ StepWith(s)
    /\ \E o \in {Outcome[s]} :
          /\ o.error
          /\ agent' = Return(SteppedOn(agent, s), "stream_error",
                             IF o.parser_raised THEN RaisedByParser
                             ELSE RaisedByStream)
    /\ UNCHANGED <<input, pos, parser, flushed, split, llm, loop, web, dl>>

\* if endofop_summary: ... return summary
StepEndOfOp(s) ==
    /\ StepWith(s)
    /\ \E o \in {Outcome[s]} :
          /\ ~o.error
          /\ o.endofop_summary # <<>>
          /\ agent' = Return([SteppedOn(agent, s) EXCEPT
                                 !.finished = TRUE,
                                 !.final_result = JStr(o.endofop_summary[1]),
                                 !.messages = Append(@, AssistantMsg(o.assembled))],
                             "summary", o.endofop_summary[1])
    /\ UNCHANGED <<input, pos, parser, flushed, split, llm, loop, web, dl>>

\* the messages after the loop detection: the repetition nudge is appended
\* when repeat_count has reached NudgeAt
AfterLoopDetection(messages, tool_name, repeat_count) ==
    IF repeat_count >= NudgeAt
    THEN Append(messages, RepeatNudge(tool_name, repeat_count))
    ELSE messages

\* if action_pending: loop detection, then the tool call and its result
StepAction(s) ==
    /\ StepWith(s)
    /\ \E o \in {Outcome[s]} :
          /\ ~o.error
          /\ o.endofop_summary = <<>>
          /\ o.action_pending # <<>>
          /\ \E tool_name \in {o.action_pending[1].text},
                action_sig \in {ActionSig(o.action_pending[1].text,
                                          o.action_pending[1].args)} :
              \E repeat_count \in
                    {RepeatCount(Append(agent.action_history, action_sig), action_sig)},
                result \in {_exec_tool(tool_name, o.action_pending[1].args)} :
                 \E a1 \in {[SteppedOn(agent, s) EXCEPT
                                !.action_history = Append(@, action_sig),
                                !.messages =
                                    AfterLoopDetection(@, tool_name, repeat_count)]} :
                    IF repeat_count >= AbortAt
                    THEN agent' = Return(a1, "stuck", tool_name)
                    ELSE agent' = [a1 EXCEPT
                                     !.dispatched = Append(@, action_sig),
                                     !.tool_results = Append(@, <<tool_name, result>>),
                                     !.finished =
                                         (@ \/ DoneCalled(tool_name,
                                                           o.action_pending[1].args)),
                                     !.final_result =
                                         IF DoneCalled(tool_name, o.action_pending[1].args)
                                         THEN DoneResult(o.action_pending[1].args)
                                         ELSE @,
                                     !.messages = @ \o <<AssistantMsg(o.assembled),
                                                         ToolResultMsg(tool_name, result)>>]
    /\ UNCHANGED <<input, pos, parser, flushed, split, llm, loop, web, dl>>

\* a step without directive that appends the transcript only
StepNoActionSilent(s) ==
    /\ StepWith(s)
    /\ \E o \in {Outcome[s]} :
          /\ ~o.error
          /\ o.endofop_summary = <<>>
          /\ o.action_pending = <<>>
          /\ agent' = [SteppedOn(agent, s) EXCEPT
                          !.messages = @ \o <<AssistantMsg(o.assembled)>>]
    /\ UNCHANGED <<input, pos, parser, flushed, split, llm, loop, web, dl>>

\* no action, no ENDOFOP: the transcript and the nudge to continue
StepNoAction(s) ==
    /\ StepWith(s)
    /\ \E o \in {Outcome[s]} :
          /\ ~o.error
          /\ o.endofop_summary = <<>>
          /\ o.action_pending = <<>>
          /\ agent' = [SteppedOn(agent, s) EXCEPT
                          !.messages = @ \o <<AssistantMsg(o.assembled), ContinueNudge>>]
    /\ UNCHANGED <<input, pos, parser, flushed, split, llm, loop, web, dl>>

\* the for loop ends: return "[MAX STEPS] ..."
ReturnMaxSteps ==
    /\ agent.pc = "loop"
    /\ agent.step = MaxSteps
    /\ agent' = Return(agent, "max_steps", <<>>)
    /\ UNCHANGED <<input, pos, parser, flushed, split, llm, loop, web, dl>>

AgentInit ==
    /\ input = <<>>
    /\ pos = 0
    /\ parser = NewParser
    /\ flushed = FALSE
    /\ split = FALSE
    /\ agent = AgentNew
    /\ llm \in Repertoires
    /\ loop = LoopIdle
    /\ web = WebIdle
    /\ dl = DownloaderIdle

AgentNext ==
    \/ RunBegin
    \/ \E s \in StreamIds : StepStreamError(s)
    \/ \E s \in StreamIds : StepEndOfOp(s)
    \/ \E s \in StreamIds : StepAction(s)
    \/ \E s \in StreamIds : StepNoAction(s)
    \/ ReturnMaxSteps

SpecAgent == AgentInit /\ [][AgentNext]_vars

----------------------------------------------------------------------------
(* LoopEngine.run_goal: plan, execute with retries, verify, replan *)

\* self.max_cycles
MaxCycles == 2
\* self.max_retries
MaxRetries == 2

KeyId == <<"i", "d">>
KeyTask == <<"t", "a", "s", "k">>
KeyVerify == <<"v", "e", "r", "i", "f", "y">>
KeySuccess == <<"s", "u", "c", "c", "e", "s", "s">>
KeyReason == <<"r", "e", "a", "s", "o", "n">>
KeyFixHint == <<"f", "i", "x", "_", "h", "i", "n", "t">>

\* {"id":<id>,"task":"<task>","verify":"<verify>"}
TaskText(id, task, verify) ==
    <<"{">> \o Q(KeyId) \o <<":", id, ",">> \o Q(KeyTask) \o <<":">> \o Q(task)
    \o <<",">> \o Q(KeyVerify) \o <<":">> \o Q(verify) \o <<"}">>

\* what self.agent.llm.complete(msgs) may return to the planner and the
\* replanner: the text, or a fault raised by the call
PlanIds ==
    {"Two", "One", "Prose", "Broken", "EmptyList", "Fault", "Trailing", "Number", "NoTask"}
PlanResponses ==
    [id \in PlanIds |->
        CASE id = "Two" ->
               [fault |-> FALSE,
                raw |-> <<"[">> \o TaskText("1", <<"a">>, <<"v">>) \o <<",", "\n">>
                        \o TaskText("2", <<"b">>, <<"w">>) \o <<"]">>]
          [] id = "One" ->
               [fault |-> FALSE,
                raw |-> <<"o", "k", " ", "[">> \o <<"{">> \o Q(KeyId) \o <<":", "3", ",">>
                        \o Q(KeyTask) \o <<":">> \o Q(<<"c">>) \o <<"}", "]">>]
          [] id = "Prose" ->
               [fault |-> FALSE, raw |-> <<"n", "o", " ", "p", "l", "a", "n">>]
          [] id = "Broken" ->
               [fault |-> FALSE,
                raw |-> <<"[", "{">> \o Q(KeyId) \o <<":", "1", ",", "]">>]
          [] id = "EmptyList" ->
               [fault |-> FALSE, raw |-> <<"[", "]">>]
          [] id = "Trailing" ->
               [fault |-> FALSE,
                raw |-> <<"[">> \o TaskText("3", <<"c">>, <<"v">>)
                        \o <<"]", " ", "s", "e", "e", " ", "[", "1", "]">>]
          [] id = "Number" ->
               [fault |-> FALSE, raw |-> <<"[", "1", "]">>]
          [] id = "NoTask" ->
               [fault |-> FALSE,
                raw |-> <<"[", "{">> \o Q(KeyId) \o <<":", "1", "}", "]">>]
          [] id = "Fault" ->
               [fault |-> TRUE, raw |-> <<>>]]

\* the planner responses that are empty or cannot be parsed
UnparseablePlans == {"Prose", "Broken", "EmptyList", "Fault"}

\* "Try a simpler approach"
SimplerApproach ==
    <<"T", "r", "y", " ", "a", " ", "s", "i", "m", "p", "l", "e", "r", " ",
      "a", "p", "p", "r", "o", "a", "c", "h">>

\* what llm.complete may return to the verifier
VerifyIds == {"Yes", "No", "Prose", "Broken", "Fault"}
VerifyResponses ==
    [id \in VerifyIds |->
        CASE id = "Yes" ->
               [fault |-> FALSE,
                raw |-> <<"{">> \o Q(KeySuccess) \o <<":", "t", "r", "u", "e", ",">>
                        \o Q(KeyReason) \o <<":">> \o Q(<<"r">>) \o <<"}">>]
          [] id = "No" ->
               [fault |-> FALSE,
                raw |-> <<"{">> \o Q(KeySuccess) \o <<":", "f", "a", "l", "s", "e", ",">>
                        \o Q(KeyReason) \o <<":">> \o Q(<<"r">>) \o <<",">>
                        \o Q(KeyFixHint) \o <<":">> \o Q(SimplerApproach) \o <<"}">>]
          [] id = "Prose" ->
               [fault |-> FALSE, raw |-> <<"n", "o", "t", " ", "y", "e", "t">>]
          [] id = "Broken" ->
               [fault |-> FALSE, raw |-> <<"{", "s", "u", "c", "c", "e", "s", "s", "}">>]
          [] id = "Fault" ->
               [fault |-> TRUE, raw |-> <<>>]]

\* the position of the first (dir = 1, from i up) or last (dir = -1, from i
\* down) occurrence of character c in s, 0 when there is none
RECURSIVE FindChar(_, _, _, _)
FindChar(s, c, i, dir) ==
    IF i < 1 \/ i > Len(s) THEN 0
    ELSE IF s[i] = c THEN i
    ELSE FindChar(s, c, i + dir, dir)

\* re.search(open + r'[\s\S]*' + close, raw): from the first `open` to the
\* last `close` after it; ok = FALSE when there is no match
GreedySpan(raw, open, close) ==
    With(FindChar(raw, open, 1, 1), LAMBDA a :
    With(FindChar(raw, close, Len(raw), -1), LAMBDA b :
        IF a = 0 \/ b <= a THEN [ok |-> FALSE, text |-> <<>>]
        ELSE [ok |-> TRUE, text |-> SubSeq(raw, a, b)]))

\* _plan / _replan from the response on: the list json.loads returns, or []
\* when nothing matches or anything raises
PlanOf(resp) ==
    IF resp.fault THEN <<>>
    ELSE With(GreedySpan(resp.raw, "[", "]"), LAMBDA m :
             IF ~m.ok THEN <<>>
             ELSE With(JsonLoads(m.text), LAMBDA j :
                      IF j.ok THEN j.val.v ELSE <<>>))

_plan(resp) == PlanOf(resp)
_replan(resp) == PlanOf(resp)

Planned == [id \in PlanIds |-> _plan(PlanResponses[id])]
Replanned == [id \in PlanIds |-> _replan(PlanResponses[id])]

\* an element of the plan that task["id"] and task["task"] can be read from
WellFormedTask(t) == t.t = "obj" /\ HasKey(t, KeyId) /\ HasKey(t, KeyTask)

\* the task dict as the loop uses it; runs counts the _run_subtask calls
\* made for it
TaskOf(t) ==
    [id        |-> Get(t, KeyId),
     task      |-> Get(t, KeyTask),
     verify    |-> IF HasKey(t, KeyVerify) THEN Get(t, KeyVerify)
                   ELSE JStr(<<"t", "a", "s", "k", " ", "c", "o", "m", "p", "l",
                               "e", "t", "e", "d">>),
     fix_hint  |-> JStr(<<>>),
     evidence  |-> <<>>,
     status    |-> "pending",
     runs      |-> 0]

RECURSIVE TasksOf(_)
TasksOf(xs) == IF xs = <<>> THEN <<>> ELSE <<TaskOf(Head(xs))>> \o TasksOf(Tail(xs))

\* what self.agent.run(prompt) does in a sub-task: the tool results it
\* reports through on_tool_result, and the string it returns
SubRunIds == {"ToolThenEnd", "DoneTool"}
SubRuns ==
    [id \in SubRunIds |->
        CASE id = "ToolThenEnd" ->
               [tool_results |-> << <<ToolT, _exec_tool(ToolT, EmptyDict)>> >>,
                result |-> <<"Y">>]
          [] id = "DoneTool" ->
               [tool_results |-> << <<ToolDone, _exec_tool(ToolDone, EmptyDict)>> >>,
                result |-> MaxStepsText]]

\* the agents the loop is run with, each by the sub-task runs it makes
SubAgents == {{"ToolThenEnd"}, {"DoneTool"}}

\* the models the loop is run against: the sub-task runs the agent makes, the
\* responses the planner gets and the responses the verifier gets
PlannerSays(r) == ("plan " \o r) \in llm
VerifierSays(v) == ("verify " \o v) \in llm
LoopModelKinds ==
    {[plans |-> {"Two", "Fault"}, verdicts |-> {"Yes", "No"}],
     [plans |-> {"One", "Prose", "Broken", "EmptyList"}, verdicts |-> VerifyIds],
     [plans |-> {"Trailing"}, verdicts |-> {"Yes", "No"}],
     [plans |-> {"Number", "NoTask"}, verdicts |-> {"Yes"}]}
LoopModels ==
    {a \cup {"plan " \o r : r \in k.plans} \cup {"verify " \o v : v \in k.verdicts} :
        a \in SubAgents, k \in LoopModelKinds}

\* one element of evidence_parts; attempt records which attempt made it
Part(name, text, attempt) == [name |-> name, text |-> text, attempt |-> attempt]

RECURSIVE ResultParts(_, _)
ResultParts(rs, attempt) ==
    IF rs = <<>> THEN <<>>
    ELSE <<Part(Head(rs)[1], Head(rs)[2], attempt)>> \o ResultParts(Tail(rs), attempt)

\* _run_subtask: evidence_parts starts empty, takes every tool result, and
\* ends with the final result
_run_subtask(run, attempt) ==
    ResultParts(run.tool_results, attempt)
    \o <<Part(<<"f", "i", "n", "a", "l", "_", "r", "e", "s", "u", "l", "t">>,
              run.result, attempt)>>

\* evidence += self._run_subtask(...)
NextEvidenceAccumulated(evidence, produced) == evidence \o produced

\* evidence = self._run_subtask(...): what the attempt before left is dropped
NextEvidence(evidence, produced) == produced

RECURSIVE Contains(_, _, _)
Contains(s, sub, i) ==
    IF i + Len(sub) - 1 > Len(s) THEN FALSE
    ELSE IF StartsWithAt(s, i, sub) THEN TRUE
    ELSE Contains(s, sub, i + 1)

DoneMarker == <<"[", "D", "O", "N", "E", "]">>
CompletedMarker ==
    <<"T", "a", "s", "k", " ", "c", "o", "m", "p", "l", "e", "t", "e", "d">>

\* "[DONE]" in evidence or "Task completed" in evidence
HasMarker(evidence) ==
    \E i \in 1..Len(evidence) :
        \/ Contains(evidence[i].text, DoneMarker, 1)
        \/ Contains(evidence[i].text, CompletedMarker, 1)

Verdict(ok, reason, fix_hint) == [ok |-> ok, reason |-> reason, fix_hint |-> fix_hint]

\* the try block of _verify up to the parsed object: "fault" when the call
\* or json.loads raises, "nomatch" when no {...} is found, else the object
VerifyParse(resp) ==
    IF resp.fault THEN [kind |-> "fault", obj |-> EmptyDict]
    ELSE With(GreedySpan(resp.raw, "{", "}"), LAMBDA m :
             IF ~m.ok THEN [kind |-> "nomatch", obj |-> EmptyDict]
             ELSE With(JsonLoads(m.text), LAMBDA j :
                      IF j.ok THEN [kind |-> "obj", obj |-> j.val]
                      ELSE [kind |-> "fault", obj |-> EmptyDict]))

VerifyParsed == [id \in VerifyIds |-> VerifyParse(VerifyResponses[id])]

\* a _verify that reports failure when the call or json.loads raises
_verify_failclosed(v, evidence) ==
    IF v.kind = "obj"
    THEN Verdict(HasKey(v.obj, KeySuccess) /\ Truthy(Get(v.obj, KeySuccess)),
                 "verifier",
                 IF HasKey(v.obj, KeyFixHint) THEN Get(v.obj, KeyFixHint) ELSE JStr(<<>>))
    ELSE IF v.kind = "nomatch"
    THEN IF HasMarker(evidence) THEN Verdict(TRUE, "fallback", JStr(<<>>))
         ELSE Verdict(FALSE, "unparsed",
                      JStr(SimplerApproach))
    ELSE Verdict(FALSE, "skipped", JStr(<<>>))

\* _verify(task, condition, evidence) -> (ok, reason, fix_hint)
_verify(v, evidence) ==
    IF v.kind = "obj"
    THEN Verdict(HasKey(v.obj, KeySuccess) /\ Truthy(Get(v.obj, KeySuccess)),
                 "verifier",
                 IF HasKey(v.obj, KeyFixHint) THEN Get(v.obj, KeyFixHint) ELSE JStr(<<>>))
    ELSE IF v.kind = "nomatch"
    THEN IF HasMarker(evidence) THEN Verdict(TRUE, "fallback", JStr(<<>>))
         ELSE Verdict(FALSE, "unparsed",
                      JStr(SimplerApproach))
    ELSE Verdict(TRUE, "skipped", JStr(<<>>))

RECURSIVE GoalEvidence(_)
\* _verify_goal: the evidence of every completed task, joined
GoalEvidence(completed) ==
    IF completed = <<>> THEN <<>>
    ELSE Head(completed).evidence \o GoalEvidence(Tail(completed))

\* the LoopEngine after __init__
LoopNew ==
    [pc           |-> "idle",
     cycle        |-> 0,
     plan         |-> <<>>,
     idx          |-> 0,
     attempt      |-> 0,
     evidence     |-> <<>>,
     all_passed   |-> TRUE,
     completed    |-> <<>>,
     failed       |-> <<>>,
     stop         |-> FALSE,
     result       |-> NoResult,
     plan_calls   |-> 0,
     bad_plans    |-> TRUE,
     subtask_runs |-> 0,
     replanned    |-> [cycle |-> 0, plan |-> <<>>],
     goal_checked |-> [cycle |-> 0, ok |-> FALSE, reason |-> "none"]]

LReturn(l, kind) == [l EXCEPT !.pc = "returned", !.result = [kind |-> kind, text |-> <<>>]]

\* a return whose message names a number of cycles
LReturnCycles(l, kind, n) ==
    [l EXCEPT !.pc = "returned", !.result = [kind |-> kind, text |-> NumStr(n)]]

\* run_goal up to the for loop
GoalBegin ==
    /\ loop.pc = "idle"
    /\ loop' = [LoopNew EXCEPT !.pc = "cycle"]
    /\ UNCHANGED <<input, pos, parser, flushed, split, agent, llm, web, dl>>

\* stop(), called from outside before or while run_goal is running
Stop ==
    /\ loop.pc \in {"idle", "cycle", "task", "attempt"}
    /\ ~loop.stop
    /\ loop' = [loop EXCEPT !.stop = TRUE]
    /\ UNCHANGED <<input, pos, parser, flushed, split, agent, llm, web, dl>>

\* the next cycle begins and self.plan = self._plan(goal) is called with
\* planner response r
Planning(l, r) ==
    [l EXCEPT !.cycle = @ + 1, !.plan_calls = @ + 1,
              !.bad_plans = (@ /\ r \in UnparseablePlans)]

\* if not self.plan: return
PlanEmptyAborts(r) ==
    /\ loop.pc = "cycle"
    /\ loop.cycle < MaxCycles
    /\ PlannerSays(r)
    /\ Planned[r] = <<>>
    /\ loop' = LReturn([Planning(loop, r) EXCEPT !.plan = <<>>], "no_plan")
    /\ UNCHANGED <<input, pos, parser, flushed, split, agent, llm, web, dl>>

\* if not self.plan: continue
PlanEmpty(r) ==
    /\ loop.pc = "cycle"
    /\ loop.cycle < MaxCycles
    /\ PlannerSays(r)
    /\ Planned[r] = <<>>
    /\ loop' = [Planning(loop, r) EXCEPT !.plan = <<>>]
    /\ UNCHANGED <<input, pos, parser, flushed, split, agent, llm, web, dl>>

\* the plan is shown and the loop over its tasks entered
PlanReady(r) ==
    /\ loop.pc = "cycle"
    /\ loop.cycle < MaxCycles
    /\ PlannerSays(r)
    /\ Planned[r] # <<>>
    /\ \A i \in 1..Len(Planned[r]) : WellFormedTask(Planned[r][i])
    /\ loop' = [Planning(loop, r) EXCEPT
                   !.plan = TasksOf(Planned[r]), !.idx = 1, !.all_passed = TRUE,
                   !.pc = "task"]
    /\ UNCHANGED <<input, pos, parser, flushed, split, agent, llm, web, dl>>

\* the plan holds an element that is not a dict or lacks "id" or "task":
\* _show_plan (verbose, the default) raises TypeError or KeyError at
\* t['id'] / t['task'], and nothing in run_goal catches it
PlanMalformed(r) ==
    /\ loop.pc = "cycle"
    /\ loop.cycle < MaxCycles
    /\ PlannerSays(r)
    /\ Planned[r] # <<>>
    /\ \E i \in 1..Len(Planned[r]) : ~WellFormedTask(Planned[r][i])
    /\ loop' = LReturn([Planning(loop, r) EXCEPT
                           !.plan = TasksOf(SelectSeq(Planned[r], WellFormedTask))],
                       "raised")
    /\ UNCHANGED <<input, pos, parser, flushed, split, agent, llm, web, dl>>

\* if self._stop: return "Interrupted."
TaskInterrupted ==
    /\ loop.pc = "task"
    /\ loop.idx <= Len(loop.plan)
    /\ loop.stop
    /\ loop' = LReturn(loop, "interrupted")
    /\ UNCHANGED <<input, pos, parser, flushed, split, agent, llm, web, dl>>

\* the next task is taken up without a look at self._stop
TaskStartUnchecked ==
    /\ loop.pc = "task"
    /\ loop.idx <= Len(loop.plan)
    /\ loop' = [loop EXCEPT !.attempt = 0, !.evidence = <<>>, !.pc = "attempt"]
    /\ UNCHANGED <<input, pos, parser, flushed, split, agent, llm, web, dl>>

\* the next task of the plan is taken up: success = False, evidence = ""
TaskStart ==
    /\ loop.pc = "task"
    /\ loop.idx <= Len(loop.plan)
    /\ ~loop.stop
    /\ loop' = [loop EXCEPT !.attempt = 0, !.evidence = <<>>, !.pc = "attempt"]
    /\ UNCHANGED <<input, pos, parser, flushed, split, agent, llm, web, dl>>

\* one pass of the retry loop up to the verdict: the sub-task is run and
\* verified
Attempted(l, run) ==
    [l EXCEPT !.attempt = @ + 1,
              !.subtask_runs = @ + 1,
              !.plan[l.idx].runs = @ + 1,
              !.evidence = NextEvidence(@, _run_subtask(SubRuns[run], l.attempt + 1))]

\* a verified task appended to completed as the plan holds it, without
\* status and evidence
AttemptVerifiedUnmarked(run, v) ==
    /\ loop.pc = "attempt"
    /\ run \in llm
    /\ VerifierSays(v)
    /\ \E l \in {Attempted(loop, run)} :
          /\ _verify(VerifyParsed[v], l.evidence).ok
          /\ loop' = [l EXCEPT !.completed = Append(@, l.plan[l.idx]),
                               !.idx = @ + 1,
                               !.pc = "task"]
    /\ UNCHANGED <<input, pos, parser, flushed, split, agent, llm, web, dl>>

\* if ok: the task is done and appended to completed
AttemptVerified(run, v) ==
    /\ loop.pc = "attempt"
    /\ run \in llm
    /\ VerifierSays(v)
    /\ \E l \in {Attempted(loop, run)} :
          /\ _verify(VerifyParsed[v], l.evidence).ok
          /\ \E task \in {[l.plan[l.idx] EXCEPT !.evidence = l.evidence,
                                                !.status = "done"]} :
                loop' = [l EXCEPT !.plan[l.idx] = task,
                                  !.completed = Append(@, task),
                                  !.idx = @ + 1,
                                  !.pc = "task"]
    /\ UNCHANGED <<input, pos, parser, flushed, split, agent, llm, web, dl>>

\* a retry loop that does not count its attempts against max_retries
AttemptRetryUnbounded(run, v) ==
    /\ loop.pc = "attempt"
    /\ run \in llm
    /\ VerifierSays(v)
    /\ \E l \in {Attempted(loop, run)} :
          \E verdict \in {_verify(VerifyParsed[v], l.evidence)} :
             /\ ~verdict.ok
             /\ loop' = [l EXCEPT !.plan[l.idx].fix_hint = verdict.fix_hint]
    /\ UNCHANGED <<input, pos, parser, flushed, split, agent, llm, web, dl>>

\* else: fix_hint is kept and another attempt follows
AttemptRetry(run, v) ==
    /\ loop.pc = "attempt"
    /\ run \in llm
    /\ VerifierSays(v)
    /\ loop.attempt + 1 < MaxRetries
    /\ \E l \in {Attempted(loop, run)} :
          \E verdict \in {_verify(VerifyParsed[v], l.evidence)} :
             /\ ~verdict.ok
             /\ loop' = [l EXCEPT !.plan[l.idx].fix_hint = verdict.fix_hint]
    /\ UNCHANGED <<input, pos, parser, flushed, split, agent, llm, web, dl>>

\* the last attempt fails, and the loop goes on to the next task of the plan
\* (no break)
AttemptFailedContinues(run, v) ==
    /\ loop.pc = "attempt"
    /\ run \in llm
    /\ VerifierSays(v)
    /\ loop.attempt + 1 = MaxRetries
    /\ \E l \in {Attempted(loop, run)} :
          \E verdict \in {_verify(VerifyParsed[v], l.evidence)} :
             /\ ~verdict.ok
             /\ \E task \in {[l.plan[l.idx] EXCEPT !.fix_hint = verdict.fix_hint,
                                                   !.status = "failed"]} :
                   loop' = [l EXCEPT !.plan[l.idx] = task,
                                     !.failed = Append(@, task),
                                     !.all_passed = FALSE,
                                     !.idx = @ + 1,
                                     !.pc = "task"]
    /\ UNCHANGED <<input, pos, parser, flushed, split, agent, llm, web, dl>>

\* the last attempt fails and the plan is abandoned, but all_passed is left
\* true: the goal is verified next
AttemptFailedStillPasses(run, v) ==
    /\ loop.pc = "attempt"
    /\ run \in llm
    /\ VerifierSays(v)
    /\ loop.attempt + 1 = MaxRetries
    /\ \E l \in {Attempted(loop, run)} :
          \E verdict \in {_verify(VerifyParsed[v], l.evidence)} :
             /\ ~verdict.ok
             /\ \E task \in {[l.plan[l.idx] EXCEPT !.fix_hint = verdict.fix_hint,
                                                   !.status = "failed"]} :
                   loop' = [l EXCEPT !.plan[l.idx] = task,
                                     !.failed = Append(@, task),
                                     !.idx = Len(l.plan) + 1,
                                     !.pc = "task"]
    /\ UNCHANGED <<input, pos, parser, flushed, split, agent, llm, web, dl>>

\* the last attempt fails: the task is failed and the plan abandoned; with
\* all_passed false the goal is not verified and the next cycle follows
AttemptFailed(run, v) ==
    /\ loop.pc = "attempt"
    /\ run \in llm
    /\ VerifierSays(v)
    /\ loop.attempt + 1 = MaxRetries
    /\ \E l \in {Attempted(loop, run)} :
          \E verdict \in {_verify(VerifyParsed[v], l.evidence)} :
             /\ ~verdict.ok
             /\ \E task \in {[l.plan[l.idx] EXCEPT !.fix_hint = verdict.fix_hint,
                                                   !.status = "failed"]} :
                   loop' = [l EXCEPT !.plan[l.idx] = task,
                                     !.failed = Append(@, task),
                                     !.all_passed = FALSE,
                                     !.pc = "cycle"]
    /\ UNCHANGED <<input, pos, parser, flushed, split, agent, llm, web, dl>>

\* if all_passed: the goal is verified and found achieved
GoalAchieved(v) ==
    /\ loop.pc = "task"
    /\ loop.idx > Len(loop.plan)
    /\ loop.all_passed
    /\ VerifierSays(v)
    /\ \E verdict \in {_verify(VerifyParsed[v], GoalEvidence(loop.completed))} :
          /\ verdict.ok
          /\ loop' = LReturnCycles([loop EXCEPT !.goal_checked =
                                                   [cycle |-> loop.cycle, ok |-> TRUE,
                                                    reason |-> verdict.reason]],
                                    "achieved", loop.cycle)
    /\ UNCHANGED <<input, pos, parser, flushed, split, agent, llm, web, dl>>

\* the goal is not met: self.plan = self._replan(...) with response r
GoalNotMet(v, r) ==
    /\ loop.pc = "task"
    /\ loop.idx > Len(loop.plan)
    /\ loop.all_passed
    /\ VerifierSays(v)
    /\ PlannerSays(r)
    /\ \E verdict \in {_verify(VerifyParsed[v], GoalEvidence(loop.completed))} :
          /\ ~verdict.ok
          /\ loop' = [loop EXCEPT !.plan = Replanned[r],
                                  !.replanned = [cycle |-> loop.cycle,
                                                 plan |-> Replanned[r]],
                                  !.goal_checked = [cycle |-> loop.cycle, ok |-> FALSE,
                                                    reason |-> verdict.reason],
                                  !.pc = "cycle"]
    /\ UNCHANGED <<input, pos, parser, flushed, split, agent, llm, web, dl>>

\* the for loop over the cycles ends
CycleExhausted ==
    /\ loop.pc = "cycle"
    /\ loop.cycle = MaxCycles
    /\ loop' = LReturnCycles(loop, "exhausted", MaxCycles)
    /\ UNCHANGED <<input, pos, parser, flushed, split, agent, llm, web, dl>>

LoopInit ==
    /\ input = <<>>
    /\ pos = 0
    /\ parser = NewParser
    /\ flushed = FALSE
    /\ split = FALSE
    /\ agent = AgentIdle
    /\ llm \in LoopModels
    /\ loop = LoopNew
    /\ web = WebIdle
    /\ dl = DownloaderIdle

LoopNext ==
    \/ GoalBegin
    \/ Stop
    \/ \E r \in PlanIds : PlanEmpty(r)
    \/ \E r \in PlanIds : PlanReady(r)
    \/ \E r \in PlanIds : PlanMalformed(r)
    \/ TaskInterrupted
    \/ TaskStart
    \/ \E run \in SubRunIds, v \in VerifyIds : AttemptVerified(run, v)
    \/ \E run \in SubRunIds, v \in VerifyIds : AttemptRetry(run, v)
    \/ \E run \in SubRunIds, v \in VerifyIds : AttemptFailed(run, v)
    \/ \E v \in VerifyIds : GoalAchieved(v)
    \/ \E v \in VerifyIds, r \in PlanIds : GoalNotMet(v, r)
    \/ CycleExhausted

SpecLoop == LoopInit /\ [][LoopNext]_vars

\* the steps run_goal itself takes: the code is sequential and, given that
\* every model call and agent run returns, goes on until it returns
LoopRun ==
    \/ GoalBegin
    \/ \E r \in PlanIds : PlanEmpty(r)
    \/ \E r \in PlanIds : PlanReady(r)
    \/ \E r \in PlanIds : PlanMalformed(r)
    \/ TaskInterrupted
    \/ TaskStart
    \/ \E run \in SubRunIds, v \in VerifyIds : AttemptVerified(run, v)
    \/ \E run \in SubRunIds, v \in VerifyIds : AttemptRetry(run, v)
    \/ \E run \in SubRunIds, v \in VerifyIds : AttemptFailed(run, v)
    \/ \E v \in VerifyIds : GoalAchieved(v)
    \/ \E v \in VerifyIds, r \in PlanIds : GoalNotMet(v, r)
    \/ CycleExhausted

SpecLoopLive == LoopInit /\ [][LoopNext]_vars /\ WF_vars(LoopRun)

----------------------------------------------------------------------------
(* The web front end: ThreadingHTTPServer serves each request in a thread   *)
(* of its own, and every handler drives the one Agent of AxonixHandler.agent *)

\* the connections of the agent-mode requests being served
Conns == {"c1", "c2"}

\* the steps a run takes
WebSteps == 1

\* the callback fields of the Agent, in the order _agent_sse assigns them
CallbackNames == <<"on_step", "on_token", "on_thought", "on_tool_call", "on_tool_result">>

\* the type of the SSE event each callback of _agent_sse writes
EventType ==
    [on_step |-> "step", on_token |-> "token", on_thought |-> "thought",
     on_tool_call |-> "tool_call", on_tool_result |-> "tool_result"]

\* an event written to a connection; run is the request whose run produced it
Sse(type, run, step) == [type |-> type, run |-> run, step |-> step]

\* the server with the Agent just built and two requests accepted; out holds
\* the events written to each connection
WebNew ==
    [callbacks |-> [f \in {CallbackNames[k] : k \in 1..Len(CallbackNames)} |-> "none"],
     req       |-> [c \in Conns |-> [pc |-> "accepted", registered |-> 0, fired |-> 0]],
     out       |-> [c \in Conns |-> {}]]

\* _post up to _agent_sse: the SSE response of the request is opened
SseOpen(c) ==
    /\ web.req[c].pc = "accepted"
    /\ web' = [web EXCEPT !.req[c].pc = "register"]
    /\ UNCHANGED <<input, pos, parser, flushed, split, agent, llm, loop, dl>>

\* self.agent.on_... = the closure of this handler; after the fifth,
\* self.agent.run(message) is entered
RegisterCallback(c) ==
    /\ web.req[c].pc = "register"
    /\ \E k \in {web.req[c].registered + 1} :
          web' = [web EXCEPT !.callbacks[CallbackNames[k]] = c,
                             !.req[c].registered = k,
                             !.req[c].pc = IF k = Len(CallbackNames) THEN "run" ELSE @]
    /\ UNCHANGED <<input, pos, parser, flushed, split, agent, llm, loop, dl>>

\* the run of request c reaches "if self.on_...: self.on_...(...)": the
\* closure found in the field writes to the connection of its handler; on a
\* connection already closed the write fails and _sse returns False
FireCallback(c) ==
    /\ web.req[c].pc = "run"
    /\ web.req[c].fired < WebSteps * Len(CallbackNames)
    /\ \E f \in {CallbackNames[(web.req[c].fired % Len(CallbackNames)) + 1]},
          step \in {(web.req[c].fired \div Len(CallbackNames)) + 1} :
          \E handler \in {web.callbacks[f]} :
             web' = [web EXCEPT
                        !.req[c].fired = @ + 1,
                        !.out = IF handler = "none" \/ web.req[handler].pc = "closed"
                                THEN @
                                ELSE [@ EXCEPT ![handler] =
                                         @ \cup {Sse(EventType[f], c, step)}]]
    /\ UNCHANGED <<input, pos, parser, flushed, split, agent, llm, loop, dl>>

\* run has returned: the handler writes the done event and, in the finally
\* clause of _post, the close marker to its own connection
RunDone(c) ==
    /\ web.req[c].pc = "run"
    /\ web.req[c].fired = WebSteps * Len(CallbackNames)
    /\ web' = [web EXCEPT !.req[c].pc = "closed",
                          !.out[c] = @ \cup {Sse("done", c, WebSteps),
                                              Sse("close", c, WebSteps)}]
    /\ UNCHANGED <<input, pos, parser, flushed, split, agent, llm, loop, dl>>

WebInit ==
    /\ input = <<>>
    /\ pos = 0
    /\ parser = NewParser
    /\ flushed = FALSE
    /\ split = FALSE
    /\ agent = AgentIdle
    /\ llm = {}
    /\ loop = LoopIdle
    /\ web = WebNew
    /\ dl = DownloaderIdle

WebNext ==
    \/ \E c \in Conns : SseOpen(c)
    \/ \E c \in Conns : RegisterCallback(c)
    \/ \E c \in Conns : FireCallback(c)
    \/ \E c \in Conns : RunDone(c)

SpecWeb == WebInit /\ [][WebNext]_vars

----------------------------------------------------------------------------
(* ModelDownloader: download() called from several threads for one URL,     *)
(* and the worker threads it starts                                         *)

\* the threads that call download(url, dest_path)
Callers == {"t1", "t2"}

\* the calls each of them makes
MaxCalls == 1

\* the blocks resp.read returns before the empty one
NBlocks == 1

NoEntry == [present |-> FALSE]

\* {"progress": 0, "status": "downloading", "total_size": 0, "downloaded": 0}
FreshEntry ==
    [present |-> TRUE, status |-> "downloading", progress |-> 0,
     total_size |-> 0, downloaded |-> 0]

\* the singleton after __new__, with no call made yet
DownloaderNew ==
    [downloads |-> NoEntry,
     call      |-> [t \in Callers |-> [pc |-> "idle", calls |-> 0, ret |-> "none"]],
     workers   |-> <<>>]

\* a worker thread that has not left _run
Active(w) == w.pc \in {"open", "read"}
ActiveWorkers(d) == {k \in 1..Len(d.workers) : Active(d.workers[k])}

\* download(): the test of line 22
CheckDownloading(t) ==
    /\ dl.call[t].pc = "idle"
    /\ dl.call[t].calls < MaxCalls
    /\ IF dl.downloads.present /\ dl.downloads.status = "downloading"
       THEN dl' = [dl EXCEPT !.call[t].ret = "Already downloading",
                             !.call[t].calls = @ + 1]
       ELSE dl' = [dl EXCEPT !.call[t].pc = "checked"]
    /\ UNCHANGED <<input, pos, parser, flushed, split, agent, llm, loop, web>>

\* download(): self.downloads[url] = {...}
EnterDownload(t) ==
    /\ dl.call[t].pc = "checked"
    /\ dl' = [dl EXCEPT !.downloads = FreshEntry, !.call[t].pc = "entered"]
    /\ UNCHANGED <<input, pos, parser, flushed, split, agent, llm, loop, web>>

\* download(): the worker thread is started and "Started" returned
StartWorker(t) ==
    /\ dl.call[t].pc = "entered"
    /\ dl' = [dl EXCEPT
                 !.workers = Append(@, [pc |-> "open", downloaded |-> 0, by |-> t]),
                 !.call[t] = [pc |-> "idle", calls |-> @.calls + 1, ret |-> "Started"]]
    /\ UNCHANGED <<input, pos, parser, flushed, split, agent, llm, loop, web>>

\* _run: urlopen has answered, total_size is written
WorkerOpen(k) ==
    /\ k \in 1..Len(dl.workers)
    /\ dl.workers[k].pc = "open"
    /\ dl' = [dl EXCEPT !.workers[k].pc = "read",
                        !.downloads.total_size = NBlocks]
    /\ UNCHANGED <<input, pos, parser, flushed, split, agent, llm, loop, web>>

\* _run: one block is read and written; downloaded and progress are written
WorkerBlock(k) ==
    /\ k \in 1..Len(dl.workers)
    /\ dl.workers[k].pc = "read"
    /\ dl.workers[k].downloaded < NBlocks
    /\ \E downloaded \in {dl.workers[k].downloaded + 1} :
          dl' = [dl EXCEPT
                    !.workers[k].downloaded = downloaded,
                    !.downloads.downloaded = downloaded,
                    !.downloads.progress =
                        IF dl.downloads.total_size > 0
                        THEN (100 * downloaded) \div dl.downloads.total_size
                        ELSE @]
    /\ UNCHANGED <<input, pos, parser, flushed, split, agent, llm, loop, web>>

\* _run: the empty block ends the loop, status becomes "complete"
WorkerComplete(k) ==
    /\ k \in 1..Len(dl.workers)
    /\ dl.workers[k].pc = "read"
    /\ dl.workers[k].downloaded = NBlocks
    /\ dl' = [dl EXCEPT !.workers[k].pc = "done", !.downloads.status = "complete"]
    /\ UNCHANGED <<input, pos, parser, flushed, split, agent, llm, loop, web>>

\* _run: urlopen, read or write raises, status becomes "error: ..."
WorkerFail(k) ==
    /\ k \in 1..Len(dl.workers)
    /\ Active(dl.workers[k])
    /\ dl' = [dl EXCEPT !.workers[k].pc = "done", !.downloads.status = "error"]
    /\ UNCHANGED <<input, pos, parser, flushed, split, agent, llm, loop, web>>

DownloaderInit ==
    /\ input = <<>>
    /\ pos = 0
    /\ parser = NewParser
    /\ flushed = FALSE
    /\ split = FALSE
    /\ agent = AgentIdle
    /\ llm = {}
    /\ loop = LoopIdle
    /\ web = WebIdle
    /\ dl = DownloaderNew

DownloaderNext ==
    \/ \E t \in Callers : CheckDownloading(t)
    \/ \E t \in Callers : EnterDownload(t)
    \/ \E t \in Callers : StartWorker(t)
    \/ \E k \in 1..(MaxCalls * Cardinality(Callers)) : WorkerOpen(k)
    \/ \E k \in 1..(MaxCalls * Cardinality(Callers)) : WorkerBlock(k)
    \/ \E k \in 1..(MaxCalls * Cardinality(Callers)) : WorkerComplete(k)
    \/ \E k \in 1..(MaxCalls * Cardinality(Callers)) : WorkerFail(k)

SpecDownloader == DownloaderInit /\ [][DownloaderNext]_vars

----------------------------------------------------------------------------
(* Properties of the parser *)

\* C1: fragmentation invariance.  Once the stream has been fed in fragments
\* of whatever sizes and flushed (or feed() has raised), the ordered events
\* delivered are exactly those of feeding the same text to a fresh parser as
\* one fragment and flushing it.
C1_FragmentationInvariance ==
    (flushed \/ parser.raised) =>
        \A whole \in {WholeFeed(input)} :
            /\ parser.events = whole.events
            /\ parser.raised = whole.raised

C1_Witness ==
    /\ flushed /\ split
    /\ Len(EventsOf(parser.events, {"Text"})) >= 2
    /\ Len(EventsOf(parser.events, {"Thought", "Action", "EndOfTask"})) >= 2

OneBlockInputs(c) == {pre \o ActionBlock(c) \o post : pre \in Surround, post \in Surround}

\* C4: the parser never throws: feed() and flush() return normally, and a
\* stream holding one closed action block delivers exactly one Action or
\* ParseError event for it, whatever the block's content.
C4_ParserNeverThrows ==
    /\ ~parser.raised
    /\ \A c \in ActionContents :
          (flushed /\ input \in OneBlockInputs(c)) =>
              Len(EventsOf(parser.events, {"Action", "ParseError"})) = 1

\* C6: an action block whose object has a trailing comma before its closing
\* brace yields exactly one Action("T", {"a":1}), and the text around the
\* block is reported verbatim as Text.
C6_TrailingCommaKeepsArgs ==
    \A pre \in Surround, post \in Surround :
        (flushed /\ input = pre \o ActionBlock(ContentTrailingComma) \o post) =>
            /\ EventsOf(parser.events, {"Action", "ParseError", "Thought", "EndOfTask"})
                   = <<ActionEv(ToolT, JObj(<< <<(<<"a">>), JNum(1)>> >>))>>
            /\ TextOf(parser.events) = pre \o post

C7Input == ThoughtBlock(<<"X">>) \o EndOfOpBlock(<<"Y">>)

\* C7: for <thought>X</thought><ENDOFOP>Y</ENDOFOP>, in any fragmentation,
\* the events delivered are at every moment a prefix of Thought("X"),
\* EndOfTask("Y"), and after flush() exactly these two: no Text event at all.
C7_ThoughtThenEndOfTask ==
    (input = C7Input) =>
        /\ IsPrefix(parser.events, <<ThoughtEv(<<"X">>), EndOfTaskEv(<<"Y">>)>>)
        /\ flushed => parser.events = <<ThoughtEv(<<"X">>), EndOfTaskEv(<<"Y">>)>>

C7_Witness == input = C7Input /\ flushed /\ split /\ Len(parser.events) = 2

BlockTypes == {"Thought", "Action", "ParseError", "EndOfTask"}

\* the index in evs of the k-th event that is not Text
BlockEventAt(evs, k) ==
    CHOOSE i \in 1..Len(evs) :
        /\ evs[i].type \in BlockTypes
        /\ Cardinality({j \in 1..i : evs[j].type \in BlockTypes}) = k

\* streams made of complete blocks and plain text only
WholeSegments ==
    {LongText, ThoughtBlock(<<"X">>), EndOfOpBlock(<<"Y">>), ActionBlock(ContentValid)}

RECURSIVE WholeStreams(_)
WholeStreams(n) ==
    IF n = 0 THEN {<<>>}
    ELSE WholeStreams(n - 1)
         \cup {Append(s, g) : s \in WholeStreams(n - 1), g \in WholeSegments}

\* the event types a block may produce
EventTypesOf(seg) ==
    IF seg = ThoughtBlock(<<"X">>) THEN {"Thought"}
    ELSE IF seg = EndOfOpBlock(<<"Y">>) THEN {"EndOfTask"}
    ELSE {"Action", "ParseError"}

\* the text of the segments among the first n of segs that are not blocks
TextUpTo(segs, n) ==
    Concat([i \in 1..n |-> IF segs[i] = LongText THEN LongText ELSE <<>>])

\* the index in segs of its k-th block
BlockSegAt(segs, k) ==
    CHOOSE i \in 1..Len(segs) :
        /\ segs[i] # LongText
        /\ Cardinality({j \in 1..i : segs[j] # LongText}) = k

\* evs is the stream segs in order: one event per block, of the block's kind,
\* after exactly the text that precedes the block and before the text and the
\* events that follow it
InStreamOrder(evs, segs) ==
    \A n \in {Cardinality({j \in 1..Len(segs) : segs[j] # LongText})} :
        /\ Len(EventsOf(evs, BlockTypes)) = n
        /\ TextOf(evs) = TextUpTo(segs, Len(segs))
        /\ \A k \in 1..n :
              \A i \in {BlockEventAt(evs, k)}, b \in {BlockSegAt(segs, k)} :
                 /\ evs[i].type \in EventTypesOf(segs[b])
                 /\ TextOf(SubSeq(evs, 1, i - 1)) = TextUpTo(segs, b - 1)

\* C20: events are delivered in stream order, each once.  For a stream of
\* complete blocks and text, and for a stream holding one action block of any
\* content between two pieces of text: once the stream is fed and flushed (or
\* feed has given up), every block has produced exactly one event of its kind,
\* preceded by exactly the text before its open tag and followed by the text
\* after its close tag.
C20_EventsInStreamOrder ==
    /\ \A segs \in WholeStreams(MaxSegs) :
          (flushed /\ input = Concat(segs)) => InStreamOrder(parser.events, segs)
    /\ \A c \in ActionContents, pre \in Surround, post \in Surround :
          ((flushed \/ parser.raised) /\ input = pre \o ActionBlock(c) \o post) =>
              /\ Len(EventsOf(parser.events, BlockTypes)) = 1
              /\ \A i \in {BlockEventAt(parser.events, 1)} :
                    /\ parser.events[i].type \in {"Action", "ParseError"}
                    /\ TextOf(SubSeq(parser.events, 1, i - 1)) = pre
                    /\ TextOf(SubSeq(parser.events, i + 1, Len(parser.events))) = post

\* the same order and count, on the streams where feed() returns normally
C20_WhenFeedReturns == parser.raised \/ C20_EventsInStreamOrder

\* the first position from i on at which sub starts in s, 0 when there is none
RECURSIVE FindSub(_, _, _)
FindSub(s, sub, i) ==
    IF i + Len(sub) - 1 > Len(s) THEN 0
    ELSE IF StartsWithAt(s, i, sub) THEN i
    ELSE FindSub(s, sub, i + 1)

\* the first open tag from position i on: where it starts and which it is;
\* at = 0 when there is none
FirstOpen(s, i) ==
    With({k \in 1..Len(TAGS) : FindSub(s, TAGS[k][1], i) > 0}, LAMBDA ks :
        IF ks = {} THEN [at |-> 0, k |-> 0]
        ELSE With(CHOOSE k \in ks :
                    \A m \in ks : FindSub(s, TAGS[k][1], i) <= FindSub(s, TAGS[m][1], i),
                  LAMBDA k : [at |-> FindSub(s, TAGS[k][1], i), k |-> k]))

\* the stream from position i on with every complete block (open tag,
\* content, close tag) cut out; open = TRUE when the stream ends inside a
\* block
RECURSIVE StripBlocks(_, _)
StripBlocks(s, i) ==
    With(FirstOpen(s, i), LAMBDA o :
        IF o.at = 0 THEN [text |-> SubSeq(s, i, Len(s)), open |-> FALSE]
        ELSE With(FindSub(s, TAGS[o.k][2], o.at + Len(TAGS[o.k][1])), LAMBDA c :
                 IF c = 0 THEN [text |-> SubSeq(s, i, o.at - 1), open |-> TRUE]
                 ELSE With(StripBlocks(s, c + Len(TAGS[o.k][2])), LAMBDA rest :
                          [text |-> SubSeq(s, i, o.at - 1) \o rest.text,
                           open |-> rest.open])))

\* C34: text conservation.  For a stream that ends outside a block, once it
\* is fed and flushed (or feed() has given up) the Text events, joined, are
\* the input with every complete block removed.
C34_TextIsConserved ==
    (flushed \/ parser.raised) =>
        \A stripped \in {StripBlocks(input, 1)} :
            ~stripped.open => TextOf(parser.events) = stripped.text

\* the same on the streams where feed() returns normally
C34_WhenFeedReturns == parser.raised \/ C34_TextIsConserved

\* the event a closed block of kind k with content c yields, c being no
\* action object
LiteralEvent(k, c) ==
    CASE TAGS[k][3] = STATE_THOUGHT -> ThoughtEv(c)
      [] TAGS[k][3] = STATE_ACTION -> ParseErrorEv(c)
      [] TAGS[k][3] = STATE_ENDOFOP -> EndOfTaskEv(c)

\* C21: nested tags are not recognised.  In a content state, the content is
\* literally every character fed since the open tag of that state, whatever
\* tags it holds; a block with an open tag of any kind, or a close tag of
\* another kind, inside it stays in its content state until its own close
\* tag and then yields one event carrying the inner tag as content.
C21_NestedTagsAreContent ==
    /\ (parser.state # STATE_TEXT /\ ~parser.raised) =>
          \E k \in 1..3 :
             /\ TAGS[k][3] = parser.state
             /\ Len(parser.content) + Len(TAGS[k][1]) <= pos
             /\ parser.content = SubSeq(input, pos - Len(parser.content) + 1, pos)
             /\ EndsWith(SubSeq(input, 1, pos - Len(parser.content)), TAGS[k][1])
    /\ \A k \in 1..3 : \A inner \in InnerTags(k) :
          (input = BlockOf(k, NestedContent(inner))) =>
              /\ (pos >= Len(TAGS[k][1]) /\ pos < Len(input)) =>
                    (parser.state = TAGS[k][3] /\ parser.events = <<>>)
              /\ (pos = Len(input)) =>
                    /\ parser.state = STATE_TEXT
                    /\ parser.events = <<LiteralEvent(k, NestedContent(inner))>>

C21_Witness ==
    /\ input = BlockOf(1, NestedContent(CloseAction))
    /\ flushed /\ split
    /\ parser.events = <<ThoughtEv(NestedContent(CloseAction))>>

\* C22: flush() emits the text held in tag_buf in the TEXT state as one final
\* Text event, and emits nothing otherwise: a stream that ended inside an
\* unclosed block gets no event for the partial content.  A stream without
\* any block is, after flush(), delivered whole as Text.
C22_FlushEmitsHeldTextOnly ==
    /\ [][(flushed' /\ ~flushed) =>
             IF parser.state = STATE_TEXT /\ parser.tag_buf # <<>>
             THEN /\ parser'.events = Append(parser.events, TextEv(parser.tag_buf))
                  /\ parser'.tag_buf = <<>>
             ELSE parser'.events = parser.events]_vars
    /\ []((flushed /\ parser.state = STATE_TEXT
            /\ EventsOf(parser.events, BlockTypes) = <<>>) =>
              TextOf(parser.events) = input)

C22_Witness ==
    /\ flushed
    /\ parser.state = STATE_THOUGHT
    /\ parser.content = LongText
    /\ EventsOf(parser.events, BlockTypes) = <<>>
    /\ TextOf(parser.events) = <<"<">>

\* C23: after every fragment fed, tag_buf holds at most max_tag_len + 2 = 11
\* characters and is empty outside the TEXT state; while no block has been
\* entered, the Text delivered followed by tag_buf is exactly what was fed
\* (the characters released are the oldest ones).
C23_BoundedLookahead ==
    /\ max_tag_len + LookaheadGuard = 11
    /\ Len(parser.tag_buf) <= max_tag_len + LookaheadGuard
    /\ parser.state # STATE_TEXT => parser.tag_buf = <<>>
    /\ (parser.state = STATE_TEXT /\ ~flushed /\ ~parser.raised
         /\ EventsOf(parser.events, BlockTypes) = <<>>) =>
          TextOf(parser.events) \o parser.tag_buf = SubSeq(input, 1, pos)

C23_Witness ==
    /\ ~flushed
    /\ Len(parser.tag_buf) = max_tag_len + LookaheadGuard
    /\ Len(parser.events) >= 13
    /\ EventsOf(parser.events, BlockTypes) = <<>>

\* C29: an action block whose object names the tool under tool, name or
\* function and gives the arguments under args, arguments or parameters
\* yields exactly one Action with that tool and those arguments; with no
\* arguments key, the arguments are the empty map.
C29_KeyAliasesAccepted ==
    /\ \A tk \in ToolKeys, ak \in ArgsKeys :
          (flushed /\ input = ActionBlock(CallText(tk, Q(ToolT), ak, ArgsA1, <<"}">>))) =>
              parser.events = <<ActionEv(ToolT, JObj(<< <<(<<"a">>), JNum(1)>> >>))>>
    /\ \A tk \in ToolKeys :
          (flushed /\ input = ActionBlock(CallNoArgs(tk))) =>
              parser.events = <<ActionEv(ToolT, EmptyDict)>>

C29_Witness ==
    /\ flushed /\ split
    /\ input = ActionBlock(CallText(KeyFunction, Q(ToolT), KeyParameters, ArgsA1, <<"}">>))
    /\ parser.events = <<ActionEv(ToolT, JObj(<< <<(<<"a">>), JNum(1)>> >>))>>

----------------------------------------------------------------------------
(* Properties of Agent.run *)

\* the number of elements of h equal to x
Occurrences(h, x) == Cardinality({i \in 1..Len(h) : h[i] = x})

NudgesFor(messages, tool) ==
    Cardinality({i \in 1..Len(messages) :
                    messages[i].kind = "repeat_nudge" /\ messages[i].tool = tool})

\* C2: the 5th occurrence of one action signature in a run, consecutive or
\* not, ends the run: a signature never occurs more than 5 times, and where
\* it occurs 5 times the 5th is the last action of the run, the run has
\* returned the stuck-loop outcome for that tool, the tool was dispatched for
\* the four occurrences before only, and every step started is accounted for.
C2_FifthRepeatAborts ==
    /\ \A i \in 1..Len(agent.action_history) :
          \A sig \in {agent.action_history[i]} :
              \A n \in {Occurrences(SubSeq(agent.action_history, 1, i), sig)} :
                  /\ n <= AbortAt
                  /\ (n = AbortAt) =>
                        /\ i = Len(agent.action_history)
                        /\ agent.pc = "returned"
                        /\ agent.result = [kind |-> "stuck", text |-> sig[1]]
                        /\ Occurrences(agent.dispatched, sig) = AbortAt - 1
                        /\ Len(agent.dispatched) = Len(agent.action_history) - 1
    /\ (agent.pc = "returned" /\ agent.result.kind = "stuck") =>
          Occurrences(agent.action_history,
                      agent.action_history[Len(agent.action_history)]) = AbortAt

C2_Witness ==
    /\ agent.pc = "returned"
    /\ agent.result.kind = "stuck"
    /\ Len(agent.action_history) = AbortAt + 1
    /\ agent.action_history[AbortAt] # agent.action_history[AbortAt + 1]

\* C3: a run in which one action is repeated holds exactly one repetition
\* nudge for it, injected at the 3rd occurrence: none at the 4th or the 5th.
C3_SingleRepetitionNudge ==
    /\ \A i \in 1..Len(agent.messages) :
          agent.messages[i].kind = "repeat_nudge" => agent.messages[i].n = NudgeAt
    /\ \A i \in 1..Len(agent.action_history) :
          Occurrences(agent.action_history, agent.action_history[i]) >= NudgeAt =>
              NudgesFor(agent.messages, agent.action_history[i][1]) = 1

\* C5: malformed action content never ends the run with an error outcome: no
\* run returns the stream error for an exception raised inside the parser.
C5_MalformedActionNeverFatal ==
    ~(agent.pc = "returned"
      /\ agent.result = [kind |-> "stream_error", text |-> RaisedByParser])

\* what a caller of run() has afterwards: the returned string and the fields
\* _finished and _final_result
Observed(a) ==
    [returns |-> ReturnString(a.result), finished |-> a.finished,
     final_result |-> a.final_result]

\* the observations a run that ended on an ENDOFOP block can leave
SuccessOutcomes ==
    {[returns |-> Outcome[s].endofop_summary[1], finished |-> TRUE,
      final_result |-> JStr(Outcome[s].endofop_summary[1])] :
         s \in {t \in StreamIds : Outcome[t].endofop_summary # <<>>}}

\* C15: a run requests at most MaxSteps streams; the max-steps outcome is
\* returned only after MaxSteps steps, and what it returns and leaves behind
\* (the string, _finished, _final_result) is the observation of no successful
\* run and does not carry the error prefix of the abort outcomes.
C15_IncompleteIsDistinct ==
    /\ agent.streams <= MaxSteps
    /\ (agent.pc = "returned" /\ agent.result.kind = "max_steps") =>
          /\ agent.step = MaxSteps
          /\ ~StartsWith(ReturnString(agent.result), ErrorTag)
          /\ Observed(agent) \notin SuccessOutcomes

\* C16: a step whose stream raises returns at once with the stream error: the
\* step dispatches no tool, appends nothing to the context, and once the error
\* is returned the run requests no further stream; while the run is in its
\* loop, a raising stream can be answered only by that return.
C16_StreamFaultAborts ==
    /\ [](\A s \in StreamIds :
             (Streams[s].fault /\ ENABLED StepWith(s)) =>
                 /\ ENABLED StepStreamError(s)
                 /\ ~ENABLED StepAction(s)
                 /\ ~ENABLED StepNoAction(s)
                 /\ ~ENABLED StepEndOfOp(s))
    /\ [][\A s \in StreamIds :
             (Streams[s].fault /\ StepStreamError(s)) =>
                 /\ agent'.pc = "returned"
                 /\ agent'.result = [kind |-> "stream_error", text |-> RaisedByStream]
                 /\ StartsWith(ReturnString(agent'.result), ErrorTag)
                 /\ agent'.messages = agent.messages
                 /\ agent'.dispatched = agent.dispatched
                 /\ agent'.tool_results = agent.tool_results]_vars
    /\ [][(agent.pc = "returned" /\ agent.result.kind = "stream_error") =>
             (agent'.streams = agent.streams \/ agent'.runs = agent.runs + 1)]_vars

C16_Witness ==
    /\ agent.pc = "returned"
    /\ agent.result = [kind |-> "stream_error", text |-> RaisedByStream]
    /\ agent.dispatched # <<>>
    /\ agent.step < MaxSteps

\* C17: every failing tool call (unknown tool, arguments that do not bind, an
\* exception inside the tool) yields a result string with the error prefix;
\* the step that made the call keeps the run in its loop and appends the
\* assistant transcript and that string as the tool result.
C17_ToolFailuresBecomeResults ==
    /\ [](\A i \in 1..Len(agent.tool_results) :
             \A name \in {agent.tool_results[i][1]} :
                (name \notin ToolMap \/ name \in {ToolR, ToolB}) =>
                    StartsWith(agent.tool_results[i][2], ErrorTag))
    /\ [][Len(agent'.tool_results) = Len(agent.tool_results) + 1 =>
             \A tr \in {agent'.tool_results[Len(agent'.tool_results)]} :
                /\ agent'.pc = "loop"
                /\ agent'.step = agent.step + 1
                /\ Len(agent'.messages) >= 2
                /\ agent'.messages[Len(agent'.messages)] = ToolResultMsg(tr[1], tr[2])
                /\ agent'.messages[Len(agent'.messages) - 1].role = "assistant"]_vars

C17_Witness ==
    /\ agent.pc = "loop"
    /\ \E i, j \in 1..Len(agent.tool_results) :
          /\ i < j
          /\ agent.tool_results[i][1] = ToolR
          /\ agent.tool_results[j][1] = ToolB
          /\ j < Len(agent.tool_results)

\* whether an Action or EndOfTask event has fired, or feed() has raised,
\* once the first n fragments are fed to a fresh parser
FiredBy(tokens, n) ==
    \E p \in {feed(NewParser, Concat(SubSeq(tokens, 1, n)))} :
        p.raised \/ EventsOf(p.events, {"Action", "EndOfTask"}) # <<>>

\* the number of fragments up to the one in which the first directive
\* fires; all of them when none does
FirstFiring(tokens) ==
    IF \E n \in 1..Len(tokens) : FiredBy(tokens, n)
    THEN CHOOSE n \in 1..Len(tokens) :
            /\ FiredBy(tokens, n)
            /\ \A m \in 1..(n - 1) : ~FiredBy(tokens, m)
    ELSE Len(tokens)

FragmentsNeeded == [id \in StreamIds |-> FirstFiring(Streams[id].tokens)]

\* the raw model output consumed in the step that took `fragments`
\* fragments of stream id
RawTranscript(id, fragments) == Concat(SubSeq(Streams[id].tokens, 1, fragments))

\* what the parser reports for the fragments a step needs: the callbacks, and
\* whether the try block is left by an exception
StepEvents ==
    [id \in StreamIds |->
        With(feed(NewParser, RawTranscript(id, FragmentsNeeded[id])), LAMBDA p :
            [events |-> IF p.raised THEN p.events ELSE flush(p).events,
             failed |-> p.raised
                        \/ (Streams[id].fault
                            /\ EventsOf(p.events, {"Action", "EndOfTask"}) = <<>>)])]

EndFires(id) ==
    ~StepEvents[id].failed /\ EventsOf(StepEvents[id].events, {"EndOfTask"}) # <<>>

Quiet(id) ==
    /\ ~StepEvents[id].failed
    /\ EventsOf(StepEvents[id].events, {"Action", "EndOfTask"}) = <<>>

\* the step just taken consumed stream id
StepTook(id) == agent'.last_stream = id /\ agent'.streams = agent.streams + 1

\* C24: at most one directive per step.  A step requests the fragments of
\* its stream up to the one in which the first Action or EndOfTask fires and
\* no more; it dispatches at most one tool, the first Action recognised, even
\* if the fragments hold more Action blocks.
C24_OneDirectivePerStep ==
    /\ [](Len(agent.dispatched) <= agent.step)
    /\ [](agent.last_stream # "none" =>
             agent.fragments = FragmentsNeeded[agent.last_stream])
    /\ [][agent'.runs = agent.runs =>
             /\ Len(agent'.dispatched) <= Len(agent.dispatched) + 1
             /\ Len(agent'.tool_results) <= Len(agent.tool_results) + 1
             /\ Len(agent'.dispatched) = Len(agent.dispatched) + 1 =>
                   \A first \in {EventsOf(StepEvents[agent'.last_stream].events,
                                          {"Action"})[1]} :
                      /\ agent'.step = agent.step + 1
                      /\ agent'.dispatched[Len(agent'.dispatched)]
                             = <<first.text, DumpsSorted(first.args)>>
                      /\ agent'.tool_results[Len(agent'.tool_results)][1]
                             = first.text]_vars

C24_Witness ==
    /\ agent.last_stream = "AA"
    /\ Len(EventsOf(StepEvents["AA"].events, {"Action"})) = 2
    /\ agent.step = 2
    /\ agent.fragments = 1
    /\ Len(agent.tool_results) = 2
    /\ \A i \in 1..2 : agent.tool_results[i][1] = ToolT

\* the part of C25 about the step in which EndOfTask fires: the task is
\* marked finished, the assistant transcript is appended, the summary is
\* returned, no tool is dispatched and no further step runs
C25_EndOfTaskBranch ==
    /\ [][\A id \in StreamIds :
             (StepTook(id) /\ EndFires(id)) =>
                 \A summary \in {EventsOf(StepEvents[id].events, {"EndOfTask"})[1].text} :
                    /\ agent'.pc = "returned"
                    /\ agent'.result = [kind |-> "summary", text |-> summary]
                    /\ agent'.finished
                    /\ agent'.final_result = JStr(summary)
                    /\ Len(agent'.messages) = Len(agent.messages) + 1
                    /\ agent'.messages[Len(agent'.messages)].role = "assistant"
                    /\ agent'.dispatched = agent.dispatched
                    /\ agent'.tool_results = agent.tool_results]_vars
    /\ [][agent.pc = "returned" =>
             (agent'.streams = agent.streams \/ agent'.runs = agent.runs + 1)]_vars

\* C25: the step in which EndOfTask fires marks the task finished, appends
\* the assistant transcript, returns the summary, dispatches no tool and is
\* the last step; and a run that returned any other way is not marked
\* finished.
C25_FinishedOnlyByEndOfTask ==
    /\ C25_EndOfTaskBranch
    /\ []((agent.pc = "returned" /\ agent.result.kind # "summary") => ~agent.finished)

\* the last assistant message of the context
LastAssistant(messages) ==
    messages[CHOOSE i \in 1..Len(messages) :
                /\ messages[i].role = "assistant"
                /\ \A j \in (i + 1)..Len(messages) : messages[j].role # "assistant"]

\* C26: the assistant message appended for a step is the raw transcript of
\* the model output consumed in the step, blocks included.
C26_TranscriptIsRaw ==
    (/\ agent.last_stream # "none"
     /\ agent.pc = "loop" \/ agent.result.kind \in {"summary", "max_steps"}) =>
        LastAssistant(agent.messages).text
            = RawTranscript(agent.last_stream, agent.fragments)

\* C27: the action history is that of one run: it is empty when a run
\* begins and only grows during the run, holds at most one entry per step
\* of this run, and every repetition nudge in the context and every
\* stuck-loop abort is backed by that many occurrences in this run's
\* history.
C27_HistoryIsPerRun ==
    /\ [][agent'.runs = agent.runs + 1 => agent'.action_history = <<>>]_vars
    /\ [][agent'.runs = agent.runs =>
             IsPrefix(agent.action_history, agent'.action_history)]_vars
    /\ [](Len(agent.action_history) <= agent.step)
    /\ [](\A i \in 1..Len(agent.messages) :
             agent.messages[i].kind = "repeat_nudge" =>
                 \E k \in 1..Len(agent.action_history) :
                    /\ agent.action_history[k][1] = agent.messages[i].tool
                    /\ Occurrences(agent.action_history, agent.action_history[k])
                          >= agent.messages[i].n)
    /\ []((agent.pc = "returned" /\ agent.result.kind = "stuck") =>
             \E k \in 1..Len(agent.action_history) :
                /\ agent.action_history[k][1] = agent.result.text
                /\ Occurrences(agent.action_history, agent.action_history[k]) = AbortAt)

C27_Witness ==
    /\ agent.prior_stuck
    /\ agent.runs = 2
    /\ agent.pc = "loop"
    /\ Len(agent.action_history) = 2
    /\ agent.action_history[1] = agent.action_history[2]
    /\ NudgesFor(agent.messages, agent.action_history[1][1]) = 0

\* C30: a step whose stream ends with neither an Action nor an EndOfTask
\* event (text only, or an action block reported as ParseError) appends the
\* assistant transcript and then exactly one nudge from the user role,
\* dispatches no tool, stays in the loop and uses up one step of the budget.
C30_QuietStepNudgesOnce ==
    /\ [][\A id \in StreamIds :
             (StepTook(id) /\ Quiet(id)) =>
                 \A n \in {Len(agent.messages)} :
                    /\ Len(agent'.messages) = n + 2
                    /\ SubSeq(agent'.messages, 1, n) = agent.messages
                    /\ agent'.messages[n + 1].role = "assistant"
                    /\ agent'.messages[n + 2] = ContinueNudge
                    /\ ContinueNudge.role = "user"
                    /\ agent'.dispatched = agent.dispatched
                    /\ agent'.tool_results = agent.tool_results
                    /\ agent'.action_history = agent.action_history
                    /\ agent'.pc = "loop"
                    /\ agent'.step = agent.step + 1]_vars
    /\ [](agent.step <= MaxSteps)

C30_Witness ==
    /\ agent.pc = "loop"
    /\ agent.last_stream = "Garbage"
    /\ Len(EventsOf(StepEvents["Garbage"].events, {"ParseError"})) = 1
    /\ agent.step = 2
    /\ agent.messages[Len(agent.messages)] = ContinueNudge
    /\ agent.dispatched # <<>>

\* C36: the done tool ends the run.  The step that dispatches done (with
\* arguments it accepts) returns from run with the summary passed to done,
\* and no stream is requested after it.
C36_DoneEndsRun ==
    /\ [][\A id \in StreamIds :
             (/\ StepTook(id)
              /\ Len(agent'.tool_results) = Len(agent.tool_results) + 1
              /\ agent'.tool_results[Len(agent'.tool_results)][1] = ToolDone
              /\ agent'.finished) =>
                 /\ agent'.pc = "returned"
                 /\ ReturnString(agent'.result) = PyStr(agent'.final_result)]_vars
    /\ [][(agent.finished /\ agent'.runs = agent.runs) =>
             agent'.streams = agent.streams]_vars

\* C37: the context is append-only within a run, starts with the system
\* message and the user task, and from the third message on the roles
\* alternate assistant, user, assistant, user: no two neighbours have the
\* same role.
C37_RolesAlternate ==
    /\ [](agent.pc # "idle" =>
             /\ Len(agent.messages) >= 2
             /\ agent.messages[1] = SystemMsg
             /\ agent.messages[2] = TaskMsg
             /\ \A i \in 3..Len(agent.messages) :
                    agent.messages[i].role = IF i % 2 = 1 THEN "assistant" ELSE "user")
    /\ [][agent'.runs = agent.runs => IsPrefix(agent.messages, agent'.messages)]_vars

\* the part of C37 that holds: the context starts with the system message
\* and the task and is only extended during a run
C37_AppendOnly ==
    /\ [](agent.pc # "idle" =>
             /\ Len(agent.messages) >= 2
             /\ agent.messages[1] = SystemMsg
             /\ agent.messages[2] = TaskMsg
             /\ \A i \in 3..Len(agent.messages) : agent.messages[i].role # "system")
    /\ [][agent'.runs = agent.runs => IsPrefix(agent.messages, agent'.messages)]_vars

----------------------------------------------------------------------------
(* Properties of LoopEngine.run_goal *)

PartsOfAttempt(evidence, k) == \A i \in 1..Len(evidence) : evidence[i].attempt = k

\* C8: a task that is done after max_retries executions (its verification
\* failed on every attempt before the last) is in completed and not in
\* failed, was executed exactly max_retries times, and the evidence stored
\* with it is that of the last attempt only.  For every task: a completed task
\* is done after 1..max_retries executions and holds the evidence of its last
\* execution only; a failed task is one executed max_retries times without
\* success, and no task record is in both lists.
C8_RetriedTaskKeepsFinalEvidence ==
    /\ \A i \in 1..Len(loop.completed) :
          \A task \in {loop.completed[i]} :
              /\ task.status = "done"
              /\ task.runs \in 1..MaxRetries
              /\ task.evidence # <<>>
              /\ PartsOfAttempt(task.evidence, task.runs)
              /\ \A j \in 1..Len(loop.failed) : loop.failed[j] # task
    /\ \A j \in 1..Len(loop.failed) :
          /\ loop.failed[j].status = "failed"
          /\ loop.failed[j].runs = MaxRetries
    /\ (loop.pc = "attempt") =>
          /\ loop.attempt < MaxRetries
          /\ loop.plan[loop.idx].runs = loop.attempt

C8_Witness ==
    \E i \in 1..Len(loop.completed) :
        /\ loop.completed[i].runs = MaxRetries
        /\ Len(loop.completed[i].evidence) >= 2
        /\ loop.completed[i].fix_hint # JStr(<<>>)

\* C9: while every planner response has been empty or unparseable, run_goal
\* has executed no sub-task; it returns only after exactly max_cycles planning
\* calls, one per cycle, and then with the cycle-exhausted outcome.
C9_UnparseablePlansExhaustCycles ==
    (loop.pc # "idle" /\ loop.bad_plans) =>
        /\ loop.pc \in {"cycle", "returned"}
        /\ loop.subtask_runs = 0
        /\ loop.plan_calls = loop.cycle
        /\ loop.pc = "returned" =>
              /\ loop.result.kind = "exhausted"
              /\ loop.plan_calls = MaxCycles

C9_Witness ==
    /\ loop.pc = "returned"
    /\ loop.bad_plans
    /\ loop.plan_calls = MaxCycles
    /\ loop.result.kind = "exhausted"

RECURSIVE Described(_)
\* a plan by the id, the description and the condition of its tasks
Described(plan) ==
    IF plan = <<>> THEN <<>>
    ELSE <<[id |-> Head(plan).id, task |-> Head(plan).task, verify |-> Head(plan).verify]>>
         \o Described(Tail(plan))

\* C10: the tasks executed in the cycle after a failed goal verification are
\* those of the plan the replanning request produced.
C10_ReplannedPlanIsExecuted ==
    (loop.pc \in {"task", "attempt"} /\ loop.replanned.cycle = loop.cycle - 1
     /\ loop.cycle > 1) =>
        /\ \A i \in 1..Len(loop.replanned.plan) : WellFormedTask(loop.replanned.plan[i])
        /\ Described(loop.plan) = Described(TasksOf(loop.replanned.plan))

\* the position of the "]" that closes the "[" at position a of s, counting
\* brackets from depth d at position i; 0 when it is not closed
RECURSIVE ClosingBracket(_, _, _)
ClosingBracket(s, i, d) ==
    IF i > Len(s) THEN 0
    ELSE IF s[i] = "[" THEN ClosingBracket(s, i + 1, d + 1)
    ELSE IF s[i] = "]" THEN (IF d = 1 THEN i ELSE ClosingBracket(s, i + 1, d - 1))
    ELSE ClosingBracket(s, i + 1, d)

\* the first balanced [...] substring of raw
FirstBalanced(raw) ==
    With(FindChar(raw, "[", 1, 1), LAMBDA a :
        IF a = 0 THEN [ok |-> FALSE, text |-> <<>>]
        ELSE With(ClosingBracket(raw, a, 0), LAMBDA b :
                 IF b = 0 THEN [ok |-> FALSE, text |-> <<>>]
                 ELSE [ok |-> TRUE, text |-> SubSeq(raw, a, b)]))

\* the plan that the first balanced array of the response describes
BalancedPlan(resp) ==
    IF resp.fault THEN <<>>
    ELSE With(FirstBalanced(resp.raw), LAMBDA m :
             IF ~m.ok THEN <<>>
             ELSE With(JsonLoads(m.text), LAMBDA j :
                      IF j.ok THEN j.val.v ELSE <<>>))

\* the step is a planning call of run_goal
PlanningCall == loop.pc = "cycle" /\ loop'.plan_calls = loop.plan_calls + 1

\* C31: the plan is the first balanced [...] substring of the response.
\* After every planning call the plan is the one described by the first
\* balanced array of one of the responses the planner gives, also when the
\* response goes on with text that holds a bracket.
C31_FirstBalancedArrayIsPlan ==
    [][PlanningCall =>
          \E r \in PlanIds :
             /\ PlannerSays(r)
             /\ \A plan \in {BalancedPlan(PlanResponses[r])} :
                   Described(loop'.plan)
                       = Described(TasksOf(SelectSeq(plan, WellFormedTask)))]_vars

\* the response yields a list that is not a well-formed plan
Malformed(r) ==
    /\ Planned[r] # <<>>
    /\ \E i \in 1..Len(Planned[r]) :
          \/ Planned[r][i].t # "obj"
          \/ ~HasKey(Planned[r][i], KeyId)
          \/ ~HasKey(Planned[r][i], KeyTask)

\* C32: a response that is a JSON array but no well-formed plan is a
\* planning failure.  run_goal never raises, and where every response of
\* the planner is such an array, a planning call runs no task and leaves
\* the run at the start of the next cycle.
C32_MalformedPlanIsPlanningFailure ==
    /\ [](loop.result.kind # "raised")
    /\ [][(PlanningCall /\ \A r \in PlanIds : PlannerSays(r) => Malformed(r)) =>
             /\ loop'.pc = "cycle"
             /\ loop'.subtask_runs = loop.subtask_runs
             /\ loop'.cycle = loop.cycle + 1]_vars

\* C33: the bookkeeping of completed and failed.  Every task in completed
\* has status done, has been run and carries the evidence of its last
\* attempt only; every task in failed has status failed after max_retries
\* runs; no task is in both lists; both are empty when run_goal begins and
\* are only extended, by the task just attempted and one list at a time;
\* failed gets at most one task per cycle.
C33_ListsBookkeeping ==
    /\ [](\A i \in 1..Len(loop.completed) :
             \A task \in {loop.completed[i]} :
                /\ task.status = "done"
                /\ task.runs \in 1..MaxRetries
                /\ task.evidence # <<>>
                /\ \A k \in 1..Len(task.evidence) : task.evidence[k].attempt = task.runs)
    /\ [](\A i \in 1..Len(loop.failed) :
             /\ loop.failed[i].status = "failed"
             /\ loop.failed[i].runs = MaxRetries)
    /\ [](\A i \in 1..Len(loop.completed), j \in 1..Len(loop.failed) :
             loop.completed[i] # loop.failed[j])
    /\ [](Len(loop.failed) <= loop.cycle)
    /\ [][loop.pc = "idle" => (loop'.completed = <<>> /\ loop'.failed = <<>>)]_vars
    /\ [][loop.pc # "idle" =>
             /\ IsPrefix(loop.completed, loop'.completed)
             /\ IsPrefix(loop.failed, loop'.failed)
             /\ Len(loop'.completed) + Len(loop'.failed)
                   <= Len(loop.completed) + Len(loop.failed) + 1
             /\ loop'.completed # loop.completed =>
                   /\ loop.pc = "attempt"
                   /\ loop'.completed = Append(loop.completed, loop'.plan[loop.idx])
                   /\ loop'.idx = loop.idx + 1
             /\ loop'.failed # loop.failed =>
                   /\ loop.pc = "attempt"
                   /\ loop'.failed = Append(loop.failed, loop'.plan[loop.idx])
                   /\ loop'.pc = "cycle"]_vars

C33_Witness ==
    /\ loop.cycle = 2
    /\ Len(loop.completed) = 2
    /\ Len(loop.failed) = 2
    /\ loop.completed[2].runs = MaxRetries
    /\ loop.pc = "cycle"

\* C35: stop() ends the run as interrupted.  A stop request stays in force
\* until run_goal returns, and a run that returns with the request made
\* returns the interrupted outcome.
C35_StopInterrupts ==
    /\ [][loop.stop => loop'.stop]_vars
    /\ []((loop.pc = "returned" /\ loop.stop) => loop.result.kind = "interrupted")

\* the same for a request made while a task is waiting to be started
C35_StopBeforeTask ==
    []((loop.pc = "returned" /\ loop.stop /\ loop.idx <= Len(loop.plan)
        /\ loop.plan # <<>> /\ loop.all_passed /\ loop.result.kind # "exhausted")
            => loop.result.kind = "interrupted")

AllDone(plan) == \A k \in 1..Len(plan) : plan[k].status = "done"

\* the part of C28 about the list: within run_goal, completed is never
\* cleared or shortened
C28_CompletedRetained ==
    [][loop.pc # "idle" => IsPrefix(loop.completed, loop'.completed)]_vars

\* task is one of the tasks recorded in completed
IsCompleted(task) ==
    \E i \in 1..Len(loop.completed) :
        Described(<<loop.completed[i]>>) = Described(<<task>>)

\* C28: within run_goal, completed is never cleared or shortened, and a task
\* recorded in it is not run or verified again.
C28_CompletedNotRedone ==
    /\ C28_CompletedRetained
    /\ [][loop'.subtask_runs = loop.subtask_runs + 1 =>
             ~IsCompleted(loop.plan[loop.idx])]_vars

\* C11: a task that fails verification on all max_retries attempts is marked
\* failed and appended to failed; from then on until the next plan no task is
\* run and the goal is not verified: the run is at the start of the next
\* cycle, or has returned the cycle-exhausted outcome.
C11_FailedTaskAbandonsPlan ==
    /\ [](~loop.all_passed =>
            /\ loop.pc \in {"cycle", "returned"}
            /\ loop.failed # <<>>
            /\ (loop.pc = "returned") => loop.result.kind = "exhausted"
            /\ loop.goal_checked.cycle < loop.cycle)
    /\ [][(loop.all_passed /\ ~loop'.all_passed) =>
            /\ loop.pc = "attempt"
            /\ loop.plan[loop.idx].runs = MaxRetries - 1
            /\ loop'.failed = Append(loop.failed, loop'.plan[loop.idx])
            /\ loop'.plan[loop.idx].status = "failed"
            /\ loop'.plan[loop.idx].runs = MaxRetries
            /\ \A k \in (loop.idx + 1)..Len(loop.plan) : loop'.plan[k].runs = 0
            /\ loop'.completed = loop.completed
            /\ loop'.cycle = loop.cycle]_vars
    /\ [][(~loop.all_passed /\ loop'.pc # "returned") =>
            /\ loop'.subtask_runs = loop.subtask_runs
            /\ \/ loop'.cycle = loop.cycle + 1
               \/ loop' = [loop EXCEPT !.stop = TRUE]]_vars

C11_Witness ==
    /\ ~loop.all_passed
    /\ loop.pc = "cycle"
    /\ Len(loop.plan) = 2
    /\ loop.idx = 1
    /\ loop.plan[1].status = "failed"
    /\ loop.plan[2].runs = 0

\* C12: the goal is verified in a cycle only when every task of that cycle's
\* plan was verified, and the goal-achieved outcome is returned only in a
\* cycle whose goal verification succeeded, with that cycle's number in the
\* message.
C12_GoalVerifiedAfterAllTasks ==
    /\ [][(loop'.goal_checked # loop.goal_checked) =>
            /\ loop.plan # <<>>
            /\ loop.idx = Len(loop.plan) + 1
            /\ AllDone(loop.plan)
            /\ loop.all_passed
            /\ loop'.goal_checked.cycle = loop.cycle
            /\ loop'.goal_checked.ok = (loop'.result.kind = "achieved")]_vars
    /\ []((loop.result.kind = "achieved") =>
            /\ loop.pc = "returned"
            /\ loop.goal_checked.cycle = loop.cycle
            /\ loop.goal_checked.ok
            /\ AllDone(loop.plan)
            /\ loop.result.text = NumStr(loop.cycle))

C12_Witness ==
    /\ loop.result.kind = "achieved"
    /\ loop.cycle = MaxCycles
    /\ loop.failed # <<>>
    /\ Len(loop.plan) = 2

\* C13: the stop flag is looked at before each task is started and nowhere
\* else.  Found set there, run_goal returns the interrupted outcome at once:
\* that task and the later ones are not run and the goal is not verified.
\* Set while a task is being attempted or a cycle is being planned, it does
\* not end the run at that point.
C13_StopPolledBetweenTasks ==
    /\ [][(loop.stop /\ loop.pc = "task" /\ loop.idx <= Len(loop.plan)) =>
            /\ loop'.pc = "returned"
            /\ loop'.result.kind = "interrupted"
            /\ loop'.subtask_runs = loop.subtask_runs
            /\ loop'.goal_checked = loop.goal_checked
            /\ loop'.plan = loop.plan]_vars
    /\ [][(loop'.result.kind = "interrupted" /\ loop.result.kind # "interrupted") =>
            /\ loop.stop
            /\ loop.pc = "task"
            /\ loop.idx <= Len(loop.plan)]_vars
    /\ [][(loop.stop /\ loop.pc \in {"attempt", "cycle"}) =>
            loop'.result.kind # "interrupted"]_vars
    /\ []((loop.result.kind = "interrupted") =>
            \A k \in loop.idx..Len(loop.plan) : loop.plan[k].runs = 0)

C13_Witness ==
    /\ loop.result.kind = "interrupted"
    /\ loop.idx = 2
    /\ loop.plan[1].runs = MaxRetries
    /\ loop.plan[2].runs = 0

RunsOf(tasks) == {tasks[k].runs : k \in 1..Len(tasks)}

\* C14: every run_goal invocation returns.  It makes at most max_cycles
\* planning calls and runs no task more than max_retries times; it returns
\* the goal-achieved, the interrupted or else the cycle-exhausted outcome, and
\* returning leaves completed and failed as they were.
C14_RunGoalTerminates ==
    /\ [](/\ loop.plan_calls <= MaxCycles
          /\ loop.cycle <= MaxCycles
          /\ \A n \in RunsOf(loop.completed) \cup RunsOf(loop.failed) : n <= MaxRetries
          /\ (loop.pc \in {"task", "attempt"}) =>
                \A n \in RunsOf(loop.plan) : n <= MaxRetries)
    /\ []((loop.pc = "returned") =>
            /\ loop.result.kind \in {"achieved", "interrupted", "exhausted"}
            /\ (loop.result.kind = "exhausted") =>
                  /\ loop.cycle = MaxCycles
                  /\ loop.result.text = NumStr(MaxCycles))
    /\ [][(loop'.pc = "returned") =>
            /\ loop'.completed = loop.completed
            /\ loop'.failed = loop.failed]_vars
    /\ (loop.pc # "idle") ~> (loop.pc = "returned")

\* the same for the runs that no malformed plan ends with an exception
C14_UnlessPlanRaises ==
    /\ [](/\ loop.plan_calls <= MaxCycles
          /\ \A n \in RunsOf(loop.completed) \cup RunsOf(loop.failed) : n <= MaxRetries
          /\ (loop.pc \in {"task", "attempt"}) =>
                \A n \in RunsOf(loop.plan) : n <= MaxRetries)
    /\ []((loop.pc = "returned" /\ loop.result.kind # "raised") =>
            /\ loop.result.kind \in {"achieved", "interrupted", "exhausted"}
            /\ (loop.result.kind = "exhausted") => loop.cycle = MaxCycles)
    /\ (loop.pc # "idle") ~> (loop.pc = "returned")

C14_Witness ==
    /\ loop.pc = "returned"
    /\ loop.result.kind = "exhausted"
    /\ loop.completed # <<>>
    /\ loop.failed # <<>>

\* C18: a verifier response that cannot be parsed as the verification object
\* (no JSON object in it, or braces around text that is not JSON) is settled
\* by the heuristic: success exactly when the evidence holds a completion
\* marker, else failure with the generic retry hint.  Stated for the evidence
\* a failed attempt has left.
C18_UnparseableVerdictUsesHeuristic ==
    (loop.pc = "attempt" /\ loop.evidence # <<>>) =>
        \A v \in {"Prose", "Broken"} :
            \A verdict \in {_verify(VerifyParsed[v], loop.evidence)} :
                /\ verdict.ok = HasMarker(loop.evidence)
                /\ ~verdict.ok => verdict.fix_hint = JStr(SimplerApproach)

\* C19: a verification call that raises counts as success.  Where a task is
\* being attempted, a faulting verification can only record it as done (no
\* retry, no failure); where the goal is verified, a faulting verification can
\* only return the goal-achieved outcome.
C19_VerifierFaultFailsOpen ==
    /\ (loop.pc = "attempt" /\ VerifierSays("Fault")) =>
          \A run \in llm \cap SubRunIds :
              /\ ENABLED AttemptVerified(run, "Fault")
              /\ ~ENABLED AttemptRetry(run, "Fault")
              /\ ~ENABLED AttemptFailed(run, "Fault")
    /\ (loop.pc = "task" /\ loop.idx > Len(loop.plan) /\ VerifierSays("Fault")) =>
          /\ ENABLED GoalAchieved("Fault")
          /\ \A r \in PlanIds : ~ENABLED GoalNotMet("Fault", r)
    /\ (loop.goal_checked.reason = "skipped") =>
          /\ loop.pc = "returned"
          /\ loop.result.kind = "achieved"

C19_Witness ==
    /\ loop.goal_checked.reason = "skipped"
    /\ loop.result.kind = "achieved"
    /\ loop.cycle = 2
    /\ Len(loop.completed) = 2
    /\ \A k \in 1..2 : loop.completed[k].runs = 1

----------------------------------------------------------------------------
(* Properties of the web front end *)

\* C38: every event of a run is delivered only to the connection of the
\* request that started the run.
C38_EventsReachOwnConnection ==
    \A c \in Conns : \A ev \in web.out[c] : ev.run = c

\* the part that holds: the done event and the close marker of a request
\* are written to its own connection, once its run has fired every
\* callback, and no event is written to two connections
C38_DoneReachesOwnConnection ==
    /\ \A c \in Conns :
          \A ev \in web.out[c] :
              ev.type \in {"done", "close"} =>
                  /\ ev.run = c
                  /\ web.req[c].pc = "closed"
                  /\ web.req[c].fired = WebSteps * Len(CallbackNames)
    /\ \A c \in Conns, d \in Conns : c # d => web.out[c] \cap web.out[d] = {}

----------------------------------------------------------------------------
(* Properties of ModelDownloader *)

\* C39: at most one worker thread downloads the URL at a time.  At no time
\* are two workers inside _run; a call made while a worker is inside _run
\* returns "Already downloading" and starts no worker.
C39_OneWorkerPerUrl ==
    /\ [](Cardinality(ActiveWorkers(dl)) <= 1)
    /\ [][\A t \in Callers :
             (/\ dl.call[t].pc = "idle"
              /\ dl'.call[t] # dl.call[t]
              /\ ActiveWorkers(dl) # {}) =>
                 /\ dl'.call[t].ret = "Already downloading"
                 /\ dl'.call[t].pc = "idle"
                 /\ dl'.workers = dl.workers]_vars

\* the part that holds: a call whose test finds the status "downloading"
\* returns "Already downloading" and starts no worker, and a worker is
\* started only by a call that has written a fresh entry
C39_CheckSeesStatus ==
    /\ [][\A t \in Callers :
             (/\ dl.call[t].pc = "idle"
              /\ dl'.call[t] # dl.call[t]
              /\ dl.downloads.present
              /\ dl.downloads.status = "downloading") =>
                 /\ dl'.call[t].ret = "Already downloading"
                 /\ dl'.call[t].pc = "idle"
                 /\ dl'.workers = dl.workers
                 /\ dl'.downloads = dl.downloads]_vars
    /\ [][Len(dl'.workers) > Len(dl.workers) =>
             \E t \in Callers : dl.call[t].pc = "entered" /\ dl'.call[t].ret = "Started"]_vars

============================================================================
